---- MODULE Spec2Model ----
(***************************************************************************)
(* juicyurls: URL classification (URLChecker), URL validation, result      *)
(* deduplication and the concurrent processURLs / processFile pipeline of  *)
(* src/main.go, with the variants of internal/checker.                     *)
(*                                                                         *)
(* A Go string is modelled as a sequence of one-character strings, so that *)
(* prefix, suffix, substring and case folding are computed, not assumed.   *)
(***************************************************************************)
EXTENDS Integers, Sequences, FiniteSets, TLC

(***************************************************************************)
(* Strings                                                                 *)
(***************************************************************************)
\* Simple case folding of the letters that occur in the modelled inputs,
\* as applied by the "(?i)" flag of the compiled patterns.
UpperToLower ==
    ("A" :> "a") @@ ("B" :> "b") @@ ("C" :> "c") @@ ("D" :> "d") @@ ("E" :> "e") @@
    ("F" :> "f") @@ ("G" :> "g") @@ ("H" :> "h") @@ ("I" :> "i") @@ ("J" :> "j") @@
    ("K" :> "k") @@ ("L" :> "l") @@ ("M" :> "m") @@ ("N" :> "n") @@ ("O" :> "o") @@
    ("P" :> "p") @@ ("Q" :> "q") @@ ("R" :> "r") @@ ("S" :> "s") @@ ("T" :> "t") @@
    ("U" :> "u") @@ ("V" :> "v") @@ ("W" :> "w") @@ ("X" :> "x") @@ ("Y" :> "y") @@
    ("Z" :> "z")

Fold(c) == IF c \in DOMAIN UpperToLower THEN UpperToLower[c] ELSE c

Letters ==
    { "a", "b", "c", "d", "e", "f", "g", "h", "i", "j", "k", "l", "m", "n", "o", "p",
      "q", "r", "s", "t", "u", "v", "w", "x", "y", "z" } \cup DOMAIN UpperToLower

Digits == { "0", "1", "2", "3", "4", "5", "6", "7", "8", "9" }

\* A byte that is not valid UTF-8: regexp.Compile rejects a pattern holding one.
InvalidByte == "\\xff"

\* strings.HasPrefix
HasPrefix(s, p) == Len(p) <= Len(s) /\ \A j \in 1..Len(p) : s[j] = p[j]

\* strings.Contains
Contains(s, p) ==
    \E i \in 0..(Len(s) - Len(p)) : \A j \in 1..Len(p) : s[i + j] = p[j]

\* strings.TrimSpace, for the space character
TrimSpace(s) ==
    LET nonsp == { i \in 1..Len(s) : s[i] # " " }
    IN  IF nonsp = {} THEN << >>
        ELSE LET lo == CHOOSE i \in nonsp : \A k \in nonsp : i <= k
                 hi == CHOOSE i \in nonsp : \A k \in nonsp : i >= k
             IN  SubSeq(s, lo, hi)

\* strings.ToLower
ToLower(s) == [i \in 1..Len(s) |-> Fold(s[i])]

\* index of the first occurrence of character c in s, 0 when there is none
IndexOf(s, c) ==
    IF \E i \in 1..Len(s) : s[i] = c
    THEN CHOOSE i \in 1..Len(s) : s[i] = c /\ \A k \in 1..(i - 1) : s[k] # c
    ELSE 0

\* index of the last occurrence of character c in s, 0 when there is none
LastIndexOf(s, c) ==
    IF \E i \in 1..Len(s) : s[i] = c
    THEN CHOOSE i \in 1..Len(s) : s[i] = c /\ \A k \in (i + 1)..Len(s) : s[k] # c
    ELSE 0

\* the byte values of the characters, for the order of strings
Byte ==
    (" " :> 32) @@ ("+" :> 43) @@ ("-" :> 45) @@ ("." :> 46) @@ ("/" :> 47) @@ ("0" :> 48) @@
    ("1" :> 49) @@ ("2" :> 50) @@ ("3" :> 51) @@ ("4" :> 52) @@ ("5" :> 53) @@ ("6" :> 54) @@
    ("7" :> 55) @@ ("8" :> 56) @@ ("9" :> 57) @@ (":" :> 58) @@ ("A" :> 65) @@ ("B" :> 66) @@
    ("C" :> 67) @@ ("D" :> 68) @@ ("E" :> 69) @@ ("F" :> 70) @@ ("G" :> 71) @@ ("H" :> 72) @@
    ("I" :> 73) @@ ("J" :> 74) @@ ("K" :> 75) @@ ("L" :> 76) @@ ("M" :> 77) @@ ("N" :> 78) @@
    ("O" :> 79) @@ ("P" :> 80) @@ ("Q" :> 81) @@ ("R" :> 82) @@ ("S" :> 83) @@ ("T" :> 84) @@
    ("U" :> 85) @@ ("V" :> 86) @@ ("W" :> 87) @@ ("X" :> 88) @@ ("Y" :> 89) @@ ("Z" :> 90) @@
    ("a" :> 97) @@ ("b" :> 98) @@ ("c" :> 99) @@ ("d" :> 100) @@ ("e" :> 101) @@ ("f" :> 102) @@
    ("g" :> 103) @@ ("h" :> 104) @@ ("i" :> 105) @@ ("j" :> 106) @@ ("k" :> 107) @@ ("l" :> 108) @@
    ("m" :> 109) @@ ("n" :> 110) @@ ("o" :> 111) @@ ("p" :> 112) @@ ("q" :> 113) @@ ("r" :> 114) @@
    ("s" :> 115) @@ ("t" :> 116) @@ ("u" :> 117) @@ ("v" :> 118) @@ ("w" :> 119) @@ ("x" :> 120) @@
    ("y" :> 121) @@ ("z" :> 122) @@
    (InvalidByte :> 255)

\* a < b on Go strings: bytewise lexicographic order
StringLess(a, b) ==
    \E i \in 1..Len(b) :
        /\ \A j \in 1..(i - 1) : j <= Len(a) /\ a[j] = b[j]
        /\ (i > Len(a) \/ Byte[a[i]] < Byte[b[i]])

(***************************************************************************)
(* Program constants                                                       *)
(***************************************************************************)
maxURLLength == 2048

HTTP  == <<"h", "t", "t", "p", ":", "/", "/">>
HTTPS == <<"h", "t", "t", "p", "s", ":", "/", "/">>
FTP   == <<"f", "t", "p", ":", "/", "/">>

\* The category names of the -m option
KEYWORDS   == <<"k", "e", "y", "w", "o", "r", "d", "s">>
EXTENSIONS == <<"e", "x", "t", "e", "n", "s", "i", "o", "n", "s">>
PATHS      == <<"p", "a", "t", "h", "s">>
HIDDEN     == <<"h", "i", "d", "d", "e", "n">>

\* The package-level pattern lists, with the values the tests install.
Keywords   == << <<"b", "a", "d", "w", "o", "r", "d">> >>
Extensions == << <<".", "e", "x", "e">> >>
Paths      == << <<"/", "e", "v", "i", "l">> >>
Hidden     == << <<".", "g", "i", "t">> >>

(***************************************************************************)
(* regexp: the patterns the checker builds are "(?i)" + QuoteMeta(p) and   *)
(* "(?i)" + QuoteMeta(p) + "$": a case-insensitive literal, anywhere or at *)
(* the end of the text.                                                    *)
(***************************************************************************)
\* regexp.Compile of a quoted literal: the error is invalid UTF-8.
CompileOK(p) == \A j \in 1..Len(p) : p[j] # InvalidByte

\* regexp.Regexp.MatchString
MatchString(regex, s) ==
    LET p == regex.lit
    IN  IF regex.anchored
        THEN /\ Len(p) <= Len(s)
             /\ \A j \in 1..Len(p) : Fold(s[Len(s) - Len(p) + j]) = Fold(p[j])
        ELSE \E i \in 0..(Len(s) - Len(p)) :
                \A j \in 1..Len(p) : Fold(s[i + j]) = Fold(p[j])

\* Mutant: the loop ends at the first pattern that does not compile.
RECURSIVE CompileListStopAtError(_, _)
CompileListStopAtError(list, anchored) ==
    IF list = << >> THEN << >>
    ELSE IF CompileOK(Head(list))
         THEN <<[lit |-> Head(list), anchored |-> anchored]>>
                  \o CompileListStopAtError(Tail(list), anchored)
         ELSE << >>

\* the loop "for _, p := range list { if regex, err := Compile(..); err == nil { append } }"
RECURSIVE CompileList(_, _)
CompileList(list, anchored) ==
    IF list = << >> THEN << >>
    ELSE LET rest == CompileList(Tail(list), anchored)
         IN  IF CompileOK(Head(list))
             THEN <<[lit |-> Head(list), anchored |-> anchored]>> \o rest
             ELSE rest

AnyMatch(regexes, s) == \E k \in 1..Len(regexes) : MatchString(regexes[k], s)

(***************************************************************************)
(* URLChecker                                                              *)
(***************************************************************************)
\* The zero URLChecker with the given flags and exclusion strings: what main
\* builds and what the tests build as &URLChecker{...}; nothing is compiled.
URLChecker(kw, ext, pth, hid, excludes) ==
    [ checkKeywords    |-> kw,
      checkExtensions  |-> ext,
      checkPaths       |-> pth,
      checkHidden      |-> hid,
      excludePatterns  |-> excludes,
      excludeRegexes   |-> << >>,
      keywordRegexes   |-> << >>,
      extensionRegexes |-> << >>,
      pathRegexes      |-> << >>,
      hiddenRegexes    |-> << >>,
      compiledOnce     |-> FALSE ]

\* Mutant: every category is compiled, whatever the flags say.
compileRegexesAllCategories(c) ==
    IF c.compiledOnce THEN c
    ELSE [ c EXCEPT
             !.excludeRegexes   = @ \o CompileList(c.excludePatterns, FALSE),
             !.keywordRegexes   = @ \o CompileList(Keywords, FALSE),
             !.extensionRegexes = @ \o CompileList(Extensions, TRUE),
             !.pathRegexes      = @ \o CompileList(Paths, FALSE),
             !.hiddenRegexes    = @ \o CompileList(Hidden, FALSE),
             !.compiledOnce     = TRUE ]

\* URLChecker.compileRegexes: the body runs once (sync.Once), appending one
\* regex per pattern that compiles; a category that is off compiles nothing.
compileRegexes(c) ==
    IF c.compiledOnce THEN c
    ELSE [ c EXCEPT
             !.excludeRegexes   = @ \o CompileList(c.excludePatterns, FALSE),
             !.keywordRegexes   = IF c.checkKeywords
                                  THEN @ \o CompileList(Keywords, FALSE) ELSE @,
             !.extensionRegexes = IF c.checkExtensions
                                  THEN @ \o CompileList(Extensions, TRUE) ELSE @,
             !.pathRegexes      = IF c.checkPaths
                                  THEN @ \o CompileList(Paths, FALSE) ELSE @,
             !.hiddenRegexes    = IF c.checkHidden
                                  THEN @ \o CompileList(Hidden, FALSE) ELSE @,
             !.compiledOnce     = TRUE ]

NotSuspicious == [suspicious |-> FALSE, category |-> "", reason |-> ""]

KeywordHit == [suspicious |-> TRUE, category |-> "keywords",
               reason |-> "Contains suspicious keyword"]
ExtensionHit == [suspicious |-> TRUE, category |-> "extensions",
                 reason |-> "Suspicious file extension"]
PathHit == [suspicious |-> TRUE, category |-> "paths", reason |-> "Suspicious path pattern"]
HiddenHit == [suspicious |-> TRUE, category |-> "hidden", reason |-> "Hidden file or directory"]

\* Mutant: the exclusions are consulted only after the keywords.
CascadeExcludeLate(c, rawURL) ==
    IF AnyMatch(c.keywordRegexes, rawURL) THEN KeywordHit
    ELSE IF AnyMatch(c.excludeRegexes, rawURL) THEN NotSuspicious
    ELSE IF AnyMatch(c.extensionRegexes, rawURL) THEN ExtensionHit
    ELSE IF AnyMatch(c.pathRegexes, rawURL) THEN PathHit
    ELSE IF AnyMatch(c.hiddenRegexes, rawURL) THEN HiddenHit
    ELSE NotSuspicious

\* Mutant: the extensions are tested before the keywords.
CascadeExtensionsFirst(c, rawURL) ==
    IF AnyMatch(c.excludeRegexes, rawURL) THEN NotSuspicious
    ELSE IF AnyMatch(c.extensionRegexes, rawURL) THEN ExtensionHit
    ELSE IF AnyMatch(c.keywordRegexes, rawURL) THEN KeywordHit
    ELSE IF AnyMatch(c.pathRegexes, rawURL) THEN PathHit
    ELSE IF AnyMatch(c.hiddenRegexes, rawURL) THEN HiddenHit
    ELSE NotSuspicious

\* The matching cascade shared by isSuspicious and IsSuspicious, on a
\* compiled checker: exclusions, then keywords, extensions, paths, hidden.
Cascade(c, rawURL) ==
    IF AnyMatch(c.excludeRegexes, rawURL) THEN NotSuspicious
    ELSE IF AnyMatch(c.keywordRegexes, rawURL) THEN KeywordHit
    ELSE IF AnyMatch(c.extensionRegexes, rawURL) THEN ExtensionHit
    ELSE IF AnyMatch(c.pathRegexes, rawURL) THEN PathHit
    ELSE IF AnyMatch(c.hiddenRegexes, rawURL) THEN HiddenHit
    ELSE NotSuspicious

\* The checker after a call of URLChecker.isSuspicious (src/main.go): the
\* patterns are compiled unless the call returned on the length test.
isSuspiciousChecker(c, rawURL) ==
    IF rawURL = << >> \/ Len(rawURL) > maxURLLength THEN c ELSE compileRegexes(c)

\* URLChecker.isSuspicious (src/main.go): the returned triple.
isSuspicious(c, rawURL) ==
    IF rawURL = << >> \/ Len(rawURL) > maxURLLength THEN NotSuspicious
    ELSE Cascade(compileRegexes(c), rawURL)

\* checker.NewURLChecker, from the category names and exclusion entries as
\* split at the commas: entries are trimmed, no category name means all, and
\* the patterns are compiled at construction.
NewURLChecker(categories, excludes) ==
    LET cats == { ToLower(TrimSpace(categories[k])) : k \in 1..Len(categories) }
        all  == categories = << >>
        on(name) == all \/ name \in cats
    IN  compileRegexes(
          URLChecker(on(KEYWORDS), on(EXTENSIONS), on(PATHS), on(HIDDEN),
                     [k \in 1..Len(excludes) |-> TrimSpace(excludes[k])]))

\* checker.URLChecker.IsSuspicious (src/internal/checker): no length limit,
\* no lazy compilation.
IsSuspicious(c, rawURL) ==
    IF rawURL = << >> THEN NotSuspicious ELSE Cascade(c, rawURL)

(***************************************************************************)
(* net/url.Parse, as far as the modelled alphabet (letters, digits and     *)
(* . / : - space) can make it fail: a missing scheme (leading colon), a    *)
(* colon in the first segment of a scheme-less relative path, a port that  *)
(* is not numeric, a space in the host.                                    *)
(***************************************************************************)
\* url.getScheme: the index of the colon ending the scheme, 0 when there is
\* no scheme, -1 for the error "missing protocol scheme".
getScheme(s) ==
    LET ok(i) == \/ s[i] \in Letters
                 \/ i > 1 /\ s[i] \in Digits \cup {"+", "-", "."}
        stop  == { i \in 1..Len(s) : ~ok(i) }
    IN  IF stop = {} THEN 0
        ELSE LET i == CHOOSE k \in stop : \A m \in stop : k <= m
             IN  IF s[i] # ":" THEN 0 ELSE IF i = 1 THEN -1 ELSE i

\* url.validOptionalPort applied to host[lastColon:], and the host's characters
HostOK(authority) ==
    LET i == LastIndexOf(authority, ":")
    IN  /\ i # 0 => \A k \in (i + 1)..Len(authority) : authority[k] \in Digits
        /\ \A k \in 1..Len(authority) : authority[k] # " "

ParseOK(rawURL) ==
    LET colon == getScheme(rawURL)
    IN  IF colon = -1 THEN FALSE
        ELSE LET scheme == SubSeq(rawURL, 1, colon - 1)
                 rest   == SubSeq(rawURL, colon + 1, Len(rawURL))
             IN  IF ~HasPrefix(rest, <<"/">>)
                 THEN \/ scheme # << >>
                      \/ LET slash   == IndexOf(rest, "/")
                             segment == IF slash = 0 THEN rest
                                        ELSE SubSeq(rest, 1, slash - 1)
                         IN  ~Contains(segment, <<":">>)
                 ELSE IF HasPrefix(rest, <<"/", "/">>) /\
                         (scheme # << >> \/ ~HasPrefix(rest, <<"/", "/", "/">>))
                 THEN LET after == SubSeq(rest, 3, Len(rest))
                          slash == IndexOf(after, "/")
                      IN  HostOK(IF slash = 0 THEN after
                                 ELSE SubSeq(after, 1, slash - 1))
                 ELSE TRUE

\* isValidURL (src/main.go)
isValidURL(rawURL) ==
    IF Len(rawURL) = 0 \/ Len(rawURL) > maxURLLength THEN FALSE
    ELSE IF ~ParseOK(rawURL) THEN FALSE
    ELSE \/ HasPrefix(rawURL, HTTP)
         \/ HasPrefix(rawURL, HTTPS)
         \/ HasPrefix(rawURL, FTP)
         \/ Contains(rawURL, <<".">>)

\* checker.IsValidURL (src/internal/checker): the same without a length limit
IsValidURL(rawURL) ==
    IF Len(rawURL) = 0 THEN FALSE
    ELSE IF ~ParseOK(rawURL) THEN FALSE
    ELSE \/ HasPrefix(rawURL, HTTP)
         \/ HasPrefix(rawURL, HTTPS)
         \/ HasPrefix(rawURL, FTP)
         \/ Contains(rawURL, <<".">>)

(***************************************************************************)
(* Results                                                                 *)
(***************************************************************************)
Result(u, category, reason) == [URL |-> u, Category |-> category, Reason |-> reason]

\* removeDuplicates: one pass keeping a result when its URL was not seen yet
RECURSIVE removeDuplicatesFrom(_, _)
removeDuplicatesFrom(results, seen) ==
    IF results = << >> THEN << >>
    ELSE IF Head(results).URL \in seen
    THEN removeDuplicatesFrom(Tail(results), seen)
    ELSE <<Head(results)>> \o
         removeDuplicatesFrom(Tail(results), seen \cup {Head(results).URL})

\* Mutant: of several results with one URL the last is kept, not the first.
removeDuplicatesKeepLast(results) ==
    LET last(i) == \A j \in (i + 1)..Len(results) : results[j].URL # results[i].URL
        kept    == SelectSeq([i \in 1..Len(results) |-> i], last)
    IN  [k \in 1..Len(kept) |-> results[kept[k]]]

removeDuplicates(results) == removeDuplicatesFrom(results, {})

(***************************************************************************)
(* Inputs                                                                  *)
(***************************************************************************)
Repeat(c, n) == [i \in 1..n |-> c]

\* "://invalid-url" of TestProcessURLs
U_invalid == <<":", "/", "/", "i", "n", "v", "a", "l", "i", "d", "-", "u", "r", "l">>
\* the inputs of TestURLCheckerIsSuspicious
U_safeBad  == HTTP \o <<"s", "a", "f", "e", ".", "c", "o", "m", "/", "b", "a", "d", "w", "o", "r", "d">>
U_keyword  == HTTP \o <<"e", ".", "c", "o", "m", "/", "b", "a", "d", "w", "o", "r", "d">>
U_ext      == HTTPS \o <<"e", ".", "c", "o", "m", "/", "m", ".", "e", "x", "e">>
U_path     == HTTPS \o <<"e", ".", "c", "o", "m", "/", "e", "v", "i", "l", "/", "p">>
U_hidden   == HTTPS \o <<"e", ".", "c", "o", "m", "/", ".", "g", "i", "t", "/", "c">>
U_clean    == HTTP \o <<"c", "l", "e", "a", "n", ".", "c", "o", "m">>
\* several categories at once, and upper case
U_kwExt    == HTTP \o <<"x", ".", "c", "o", "m", "/", "B", "a", "d", "W", "o", "r", "d", ".", "E", "X", "E">>
U_kwHidden == <<"b", "a", "d", "w", "o", "r", "d", "/", ".", "g", "i", "t">>
U_extPath  == HTTP \o <<"b", "a", "d", ".", "c", "o", "m", "/", "e", "v", "i", "l", ".", "e", "x", "e">>
U_pathOnly == HTTP \o <<"b", "a", "d", ".", "c", "o", "m", "/", "e", "v", "i", "l">>
U_extMid   == <<"x", ".", "e", "x", "e", "/", ".", "G", "I", "T">>
U_safeGit  == <<"S", "a", "f", "e", ".", "C", "o", "m", "/", ".", "g", "i", "t">>
\* validation cases
U_noScheme == <<"n", "o", "-", "s", "c", "h", "e", "m", "e", ".", "c", "o", "m">>
U_justtext == <<"j", "u", "s", "t", "t", "e", "x", "t">>
U_bareKw   == <<"b", "a", "d", "w", "o", "r", "d">>
U_httpOnly == HTTP \o <<"x">>
U_ftp      == FTP \o <<"f", ".", "l", "o", "c", "a", "l">>
U_colon1   == <<":", "/", "/", "b", "a", "d", ".", "c", "o", "m">>
U_segColon == <<"1", "a", ":", "b", ".", "e", "x", "e">>
U_badPort  == HTTP \o <<"a", ".", "b", ":", "x">>
U_port     == HTTP \o <<"a", ".", "b", ":", "8", "0">>
U_opaque   == <<"a", ".", "b", ":", "c">>
U_space    == <<" ">>
\* at and over the length limit
U_long     == HTTP \o Repeat("x", maxURLLength)
U_longBad  == <<"b", "a", "d", "w", "o", "r", "d">> \o Repeat("x", maxURLLength - 6)
U_maxBad   == <<"b", "a", "d", "w", "o", "r", "d", ".">> \o Repeat("x", maxURLLength - 8)

ClassifyURLs ==
    { << >>, U_safeBad, U_keyword, U_ext, U_path, U_hidden, U_clean, U_kwExt, U_kwHidden,
      U_extPath, U_pathOnly, U_extMid, U_safeGit, U_bareKw, U_longBad, U_maxBad }

ValidateURLs ==
    { << >>, U_invalid, U_keyword, U_ext, U_clean, U_noScheme, U_justtext, U_bareKw,
      U_httpOnly, U_ftp, U_colon1, U_segColon, U_badPort, U_port, U_opaque, U_space,
      U_long, U_longBad, U_maxBad }

\* exclusion lists: none, the test's "safe.com", two entries in upper case, the
\* empty entry a trailing comma leaves, an entry that does not compile, and
\* such an entry followed by one that does
ExcludeLists ==
    { << >>,
      << <<"s", "a", "f", "e", ".", "c", "o", "m">> >>,
      << <<"S", "A", "F", "E">>, <<".", "g", "i", "t">> >>,
      << << >> >>,
      << <<"c", "o", "m", InvalidByte>> >>,
      << <<"c", "o", "m", InvalidByte>>, <<"s", "a", "f", "e", ".", "c", "o", "m">> >> }

\* the result lists handed to removeDuplicates
MaxResults == 4
DedupURLs == { <<"a">>, <<"b">>, <<"c">> }
DedupResults == { Result(u, k, "") : u \in DedupURLs, k \in {"k", "e"} }
DedupInputs == UNION { [1..n -> DedupResults] : n \in 0..MaxResults }

(***************************************************************************)
(* State                                                                   *)
(***************************************************************************)
VARIABLES
    call,        \* a single call of a function: [op, arg, ret, returned]
    checker,     \* the URLChecker of the run (config.urlChecker)
    cfg,         \* Config: [workers, validateURLs, verbose]
    ctx,         \* the run's context: "live", "deadline" (DeadlineExceeded), "canceled"
    file,        \* the input: [lines, isLarge]
    pf,          \* the frame of processFile / processLargeFile, or of the test
    pu,          \* the frame of processURLs: [pc, urls, numWorkers, results, err]
    stats,       \* the shared Stats of the current processURLs call
    urlChan,     \* [buf, cap, closed]
    resultsChan, \* [buf, cap, closed]
    wk,          \* the workers: [pc, local, pending] each
    producer,    \* the sending goroutine: [pc, next]
    closer,      \* the goroutine that waits for the workers and closes resultsChan
    progress,    \* the progress reporter: [pc, seen]
    ticks,       \* ticker firings so far
    emitted,     \* history: the results sent on resultsChan in this call, in order
    out          \* the sink: [written, lines]

pipeVars == <<cfg, ctx, file, pf, pu, stats, urlChan, resultsChan, wk, producer, closer,
              progress, ticks, emitted, out>>

vars == <<call, checker, cfg, ctx, file, pf, pu, stats, urlChan, resultsChan, wk, producer,
          closer, progress, ticks, emitted, out>>

NoCall == [op |-> "none", arg |-> << >>, ret |-> FALSE, returned |-> TRUE]

AllCheckers ==
    { URLChecker(kw, ext, pth, hid, ex) :
        kw \in BOOLEAN, ext \in BOOLEAN, pth \in BOOLEAN, hid \in BOOLEAN,
        ex \in ExcludeLists }

(***************************************************************************)
(* Stats                                                                   *)
(***************************************************************************)
NewStats(total) ==
    [TotalURLs |-> total, SuspiciousURLs |-> 0, InvalidURLs |-> 0, ProcessedURLs |-> 0,
     SkippedURLs |-> 0]

\* the worker's localStats
ZeroLocal == [suspicious |-> 0, invalid |-> 0, processed |-> 0, skipped |-> 0]

\* Mutant: the flush leaves the processed counter out.
UpdateStatsNoProcessed(st, l) ==
    [st EXCEPT !.SuspiciousURLs = @ + l.suspicious,
               !.InvalidURLs    = @ + l.invalid,
               !.SkippedURLs    = @ + l.skipped]

\* Stats.UpdateStats, under the mutex
UpdateStats(st, l) ==
    [st EXCEPT !.SuspiciousURLs = @ + l.suspicious,
               !.InvalidURLs    = @ + l.invalid,
               !.ProcessedURLs  = @ + l.processed,
               !.SkippedURLs    = @ + l.skipped]

\* Stats.GetStats
GetStats(st) == <<st.SuspiciousURLs, st.InvalidURLs, st.ProcessedURLs, st.SkippedURLs>>

\* ctx.Err()
CtxErr(c) ==
    CASE c = "live"     -> "nil"
      [] c = "deadline" -> "DeadlineExceeded"
      [] c = "canceled" -> "Canceled"

(***************************************************************************)
(* processURLs: workers, producer, closer, collector, progress reporter    *)
(***************************************************************************)
maxWorkers == 500
smallInput == 1000
urlsPerWorker == 10
\* runtime.NumCPU() of the machine
NumCPU == 2
\* the tickers are allowed this many firings in a run
MaxTicks == 1

Min(a, b) == IF a < b THEN a ELSE b

\* Mutant: the configured worker count is not capped at maxWorkers.
NumWorkersUncapped(configured, n) ==
    LET auto == IF configured <= 0 THEN NumCPU ELSE configured
    IN  IF n < smallInput THEN Min(auto, (n \div urlsPerWorker) + 1) ELSE auto

\* the effective worker count of processURLs
NumWorkers(configured, n) ==
    LET auto   == IF configured <= 0 THEN NumCPU ELSE configured
        capped == IF auto > maxWorkers THEN maxWorkers ELSE auto
    IN  IF n < smallInput THEN Min(capped, (n \div urlsPerWorker) + 1) ELSE capped

NewChan(capacity) == [buf |-> << >>, cap |-> capacity, closed |-> FALSE]
NoChan == [buf |-> << >>, cap |-> 0, closed |-> FALSE]

NoResult == Result(<< >>, "", "")
NewWorker == [pc |-> "select", local |-> ZeroLocal, pending |-> NoResult]

IdlePU == [pc |-> "idle", urls |-> << >>, numWorkers |-> 0, results |-> << >>, err |-> "nil"]
IdleProducer == [pc |-> "idle", next |-> 1]
IdleProgress == [pc |-> "off", seen |-> << >>]

\* processURLs up to the point where every goroutine is started and the
\* caller begins to range over resultsChan; an empty input returns at once.
CallprocessURLs(urls) ==
    LET n == NumWorkers(cfg.workers, Len(urls))
    IN  /\ stats' = NewStats(Len(urls))
        /\ emitted' = << >>
        /\ ticks' = 0
        /\ IF Len(urls) = 0
           THEN /\ pu' = [IdlePU EXCEPT !.pc = "returned"]
                /\ urlChan' = NoChan
                /\ resultsChan' = NoChan
                /\ wk' = << >>
                /\ producer' = IdleProducer
                /\ closer' = "idle"
                /\ progress' = IdleProgress
           ELSE /\ pu' = [pc |-> "collect", urls |-> urls, numWorkers |-> n,
                          results |-> << >>, err |-> "nil"]
                /\ urlChan' = NewChan(n * 4)
                /\ resultsChan' = NewChan(n * 2)
                /\ wk' = [w \in 1..n |-> NewWorker]
                /\ producer' = [pc |-> "send", next |-> 1]
                /\ closer' = "wait"
                /\ progress' = IF cfg.verbose THEN [pc |-> "run", seen |-> << >>]
                               ELSE IdleProgress

\* Mutant: the worker leaves on ctx.Done() without flushing its counters.
WorkerCtxDoneNoFlush(w) ==
    /\ wk[w].pc = "select"
    /\ ctx # "live"
    /\ wk' = [wk EXCEPT ![w].pc = "done"]
    /\ UNCHANGED <<call, checker, cfg, ctx, file, pf, pu, stats, urlChan, resultsChan,
                   producer, closer, progress, ticks, emitted, out>>

\* worker: case <-ctx.Done() of the outer select
WorkerCtxDone(w) ==
    /\ wk[w].pc = "select"
    /\ ctx # "live"
    /\ stats' = UpdateStats(stats, wk[w].local)
    /\ wk' = [wk EXCEPT ![w].pc = "done"]
    /\ UNCHANGED <<call, checker, cfg, ctx, file, pf, pu, urlChan, resultsChan, producer,
                   closer, progress, ticks, emitted, out>>

\* Mutant: the tick flushes the local counters without resetting them.
WorkerTickNoReset(w) ==
    /\ wk[w].pc = "select"
    /\ ticks < MaxTicks
    /\ ticks' = ticks + 1
    /\ stats' = UpdateStats(stats, wk[w].local)
    /\ UNCHANGED <<call, checker, cfg, ctx, file, pf, pu, urlChan, resultsChan, producer,
                   closer, progress, emitted, out, wk>>

\* worker: case <-ticker.C
WorkerTick(w) ==
    /\ wk[w].pc = "select"
    /\ ticks < MaxTicks
    /\ ticks' = ticks + 1
    /\ stats' = UpdateStats(stats, wk[w].local)
    /\ wk' = [wk EXCEPT ![w].local = ZeroLocal]
    /\ UNCHANGED <<call, checker, cfg, ctx, file, pf, pu, urlChan, resultsChan, producer,
                   closer, progress, emitted, out>>

\* Mutant: an invalid URL is counted as invalid and classified all the same.
WorkerRecvNoGate(w) ==
    /\ wk[w].pc = "select"
    /\ urlChan.buf # << >>
    /\ LET rawURL == Head(urlChan.buf)
           r      == isSuspicious(checker, rawURL)
           bad    == cfg.validateURLs /\ ~isValidURL(rawURL)
       IN  /\ urlChan' = [urlChan EXCEPT !.buf = Tail(@)]
           /\ IF TrimSpace(rawURL) = << >>
              THEN /\ wk' = [wk EXCEPT ![w].local.skipped = @ + 1]
                   /\ UNCHANGED checker
              ELSE /\ checker' = isSuspiciousChecker(checker, rawURL)
                   /\ IF r.suspicious
                      THEN wk' = [wk EXCEPT ![w].pc = "push",
                                            ![w].local.invalid = @ + (IF bad THEN 1 ELSE 0),
                                            ![w].pending = Result(rawURL, r.category, r.reason)]
                      ELSE wk' = [wk EXCEPT ![w].local.invalid = @ + (IF bad THEN 1 ELSE 0),
                                            ![w].local.processed = @ + 1]
    /\ UNCHANGED <<call, cfg, ctx, file, pf, pu, stats, resultsChan, producer, closer,
                   progress, ticks, emitted, out>>

\* worker: case rawURL, ok := <-urls with ok, up to the next select
WorkerRecv(w) ==
    /\ wk[w].pc = "select"
    /\ urlChan.buf # << >>
    /\ LET rawURL == Head(urlChan.buf)
           r      == isSuspicious(checker, rawURL)
       IN  /\ urlChan' = [urlChan EXCEPT !.buf = Tail(@)]
           /\ IF TrimSpace(rawURL) = << >>
              THEN /\ wk' = [wk EXCEPT ![w].local.skipped = @ + 1]
                   /\ UNCHANGED checker
              ELSE IF cfg.validateURLs /\ ~isValidURL(rawURL)
              THEN /\ wk' = [wk EXCEPT ![w].local.invalid = @ + 1,
                                       ![w].local.processed = @ + 1]
                   /\ UNCHANGED checker
              ELSE /\ checker' = isSuspiciousChecker(checker, rawURL)
                   /\ IF r.suspicious
                      THEN wk' = [wk EXCEPT ![w].pc = "push",
                                            ![w].pending = Result(rawURL, r.category, r.reason)]
                      ELSE wk' = [wk EXCEPT ![w].local.processed = @ + 1]
    /\ UNCHANGED <<call, cfg, ctx, file, pf, pu, stats, resultsChan, producer, closer,
                   progress, ticks, emitted, out>>

\* Mutant: the worker leaves on the closed urlChan without flushing.
WorkerClosedNoFlush(w) ==
    /\ wk[w].pc = "select"
    /\ urlChan.closed /\ urlChan.buf = << >>
    /\ wk' = [wk EXCEPT ![w].pc = "done"]
    /\ UNCHANGED <<call, checker, cfg, ctx, file, pf, pu, stats, urlChan, resultsChan,
                   producer, closer, progress, ticks, emitted, out>>

\* worker: case rawURL, ok := <-urls with !ok (closed and drained)
WorkerClosed(w) ==
    /\ wk[w].pc = "select"
    /\ urlChan.closed /\ urlChan.buf = << >>
    /\ stats' = UpdateStats(stats, wk[w].local)
    /\ wk' = [wk EXCEPT ![w].pc = "done"]
    /\ UNCHANGED <<call, checker, cfg, ctx, file, pf, pu, urlChan, resultsChan, producer,
                   closer, progress, ticks, emitted, out>>

\* Mutant: a pushed result is not counted as suspicious.
WorkerPushNoCount(w) ==
    /\ wk[w].pc = "push"
    /\ Len(resultsChan.buf) < resultsChan.cap
    /\ resultsChan' = [resultsChan EXCEPT !.buf = Append(@, wk[w].pending)]
    /\ emitted' = Append(emitted, wk[w].pending)
    /\ wk' = [wk EXCEPT ![w].pc = "select",
                        ![w].pending = NoResult,
                        ![w].local.processed = @ + 1]
    /\ UNCHANGED <<call, checker, cfg, ctx, file, pf, pu, stats, urlChan, producer, closer,
                   progress, ticks, out>>

\* worker: case results <- Result{...} of the inner select
WorkerPush(w) ==
    /\ wk[w].pc = "push"
    /\ Len(resultsChan.buf) < resultsChan.cap
    /\ resultsChan' = [resultsChan EXCEPT !.buf = Append(@, wk[w].pending)]
    /\ emitted' = Append(emitted, wk[w].pending)
    /\ wk' = [wk EXCEPT ![w].pc = "select",
                        ![w].pending = NoResult,
                        ![w].local.suspicious = @ + 1,
                        ![w].local.processed = @ + 1]
    /\ UNCHANGED <<call, checker, cfg, ctx, file, pf, pu, stats, urlChan, producer, closer,
                   progress, ticks, out>>

\* Mutant: the inner select has no case <-ctx.Done().
WorkerPushNoCtxCase(w) ==
    /\ wk[w].pc = "push"
    /\ FALSE
    /\ UNCHANGED vars

\* Mutant: the URL given up at the push is counted as suspicious and processed.
WorkerPushCtxDoneCounts(w) ==
    /\ wk[w].pc = "push"
    /\ ctx # "live"
    /\ stats' = UpdateStats(stats, [wk[w].local EXCEPT !.suspicious = @ + 1,
                                                       !.processed = @ + 1])
    /\ wk' = [wk EXCEPT ![w].pc = "done", ![w].pending = NoResult]
    /\ UNCHANGED <<call, checker, cfg, ctx, file, pf, pu, urlChan, resultsChan, producer,
                   closer, progress, ticks, emitted, out>>

\* worker: case <-ctx.Done() of the inner select
WorkerPushCtxDone(w) ==
    /\ wk[w].pc = "push"
    /\ ctx # "live"
    /\ stats' = UpdateStats(stats, wk[w].local)
    /\ wk' = [wk EXCEPT ![w].pc = "done", ![w].pending = NoResult]
    /\ UNCHANGED <<call, checker, cfg, ctx, file, pf, pu, urlChan, resultsChan, producer,
                   closer, progress, ticks, emitted, out>>

\* Mutant: the producer's send does not wait for room in urlChan.
ProducerSendNoBlock ==
    /\ producer.pc = "send"
    /\ producer.next <= Len(pu.urls)
    /\ urlChan' = [urlChan EXCEPT !.buf = Append(@, pu.urls[producer.next])]
    /\ producer' = [producer EXCEPT !.next = @ + 1]
    /\ UNCHANGED <<call, checker, cfg, ctx, file, pf, pu, stats, resultsChan, wk, closer,
                   progress, ticks, emitted, out>>

\* producer: case urlChan <- batchURL.  The batches of 100 only group the
\* sends: the URLs go out one by one, in input order.
ProducerSend ==
    /\ producer.pc = "send"
    /\ producer.next <= Len(pu.urls)
    /\ Len(urlChan.buf) < urlChan.cap
    /\ urlChan' = [urlChan EXCEPT !.buf = Append(@, pu.urls[producer.next])]
    /\ producer' = [producer EXCEPT !.next = @ + 1]
    /\ UNCHANGED <<call, checker, cfg, ctx, file, pf, pu, stats, resultsChan, wk, closer,
                   progress, ticks, emitted, out>>

\* producer: case <-ctx.Done(): return, and the deferred close(urlChan)
ProducerCtxDone ==
    /\ producer.pc = "send"
    /\ producer.next <= Len(pu.urls)
    /\ ctx # "live"
    /\ urlChan' = [urlChan EXCEPT !.closed = TRUE]
    /\ producer' = [producer EXCEPT !.pc = "done"]
    /\ UNCHANGED <<call, checker, cfg, ctx, file, pf, pu, stats, resultsChan, wk, closer,
                   progress, ticks, emitted, out>>

\* producer: the loop over urls ends, and the deferred close(urlChan)
ProducerFinish ==
    /\ producer.pc = "send"
    /\ producer.next > Len(pu.urls)
    /\ urlChan' = [urlChan EXCEPT !.closed = TRUE]
    /\ producer' = [producer EXCEPT !.pc = "done"]
    /\ UNCHANGED <<call, checker, cfg, ctx, file, pf, pu, stats, resultsChan, wk, closer,
                   progress, ticks, emitted, out>>

\* Mutant: the closer closes resultsChan as soon as one worker is done.
CloserCloseEarly ==
    /\ closer = "wait"
    /\ \E w \in DOMAIN wk : wk[w].pc = "done"
    /\ resultsChan' = [resultsChan EXCEPT !.closed = TRUE]
    /\ closer' = "done"
    /\ UNCHANGED <<call, checker, cfg, ctx, file, pf, pu, stats, urlChan, wk, producer,
                   progress, ticks, emitted, out>>

\* go func() { wg.Wait(); close(resultsChan) }()
CloserClose ==
    /\ closer = "wait"
    /\ \A w \in DOMAIN wk : wk[w].pc = "done"
    /\ resultsChan' = [resultsChan EXCEPT !.closed = TRUE]
    /\ closer' = "done"
    /\ UNCHANGED <<call, checker, cfg, ctx, file, pf, pu, stats, urlChan, wk, producer,
                   progress, ticks, emitted, out>>

\* for result := range resultsChan { results = append(results, result) }
CollectRecv ==
    /\ pu.pc = "collect"
    /\ resultsChan.buf # << >>
    /\ pu' = [pu EXCEPT !.results = Append(@, Head(resultsChan.buf))]
    /\ resultsChan' = [resultsChan EXCEPT !.buf = Tail(@)]
    /\ UNCHANGED <<call, checker, cfg, ctx, file, pf, stats, urlChan, wk, producer, closer,
                   progress, ticks, emitted, out>>

\* Mutant: the collector stops at the first moment resultsChan is empty.
CollectEndEarly ==
    /\ pu.pc = "collect"
    /\ resultsChan.buf = << >>
    /\ pu' = [pu EXCEPT !.pc = "wait"]
    /\ UNCHANGED <<call, checker, cfg, ctx, file, pf, stats, urlChan, resultsChan, wk,
                   producer, closer, progress, ticks, emitted, out>>

\* the range loop ends: resultsChan is closed and drained
CollectEnd ==
    /\ pu.pc = "collect"
    /\ resultsChan.closed /\ resultsChan.buf = << >>
    /\ pu' = [pu EXCEPT !.pc = "wait"]
    /\ UNCHANGED <<call, checker, cfg, ctx, file, pf, stats, urlChan, resultsChan, wk,
                   producer, closer, progress, ticks, emitted, out>>

\* progress reporter: case <-ticker.C, reading the counters with GetStats
ProgressTick ==
    /\ progress.pc = "run"
    /\ progress.seen # GetStats(stats)
    /\ progress' = [progress EXCEPT !.seen = GetStats(stats)]
    /\ UNCHANGED <<call, checker, cfg, ctx, file, pf, pu, stats, urlChan, resultsChan, wk,
                   producer, closer, ticks, emitted, out>>

\* progress reporter: case <-ctx.Done()
ProgressCtxDone ==
    /\ progress.pc = "run"
    /\ ctx # "live"
    /\ progress' = [progress EXCEPT !.pc = "done"]
    /\ UNCHANGED <<call, checker, cfg, ctx, file, pf, pu, stats, urlChan, resultsChan, wk,
                   producer, closer, ticks, emitted, out>>

\* progressWG.Wait() and return results, stats, ctx.Err()
ReturnprocessURLs ==
    /\ pu.pc = "wait"
    /\ progress.pc # "run"
    /\ pu' = [pu EXCEPT !.pc = "returned", !.err = CtxErr(ctx)]
    /\ UNCHANGED <<call, checker, cfg, ctx, file, pf, stats, urlChan, resultsChan, wk,
                   producer, closer, progress, ticks, emitted, out>>

\* the deadline of context.WithTimeout passes
Timeout ==
    /\ ctx = "live"
    /\ pf.pc # "returned"
    /\ ~(pf.mode = "test" /\ pu.pc = "returned")
    /\ ctx' = "deadline"
    /\ UNCHANGED <<call, checker, cfg, file, pf, pu, stats, urlChan, resultsChan, wk,
                   producer, closer, progress, ticks, emitted, out>>

NextPipeline ==
    \/ \E w \in DOMAIN wk : WorkerCtxDone(w)
    \/ \E w \in DOMAIN wk : WorkerTick(w)
    \/ \E w \in DOMAIN wk : WorkerRecv(w)
    \/ \E w \in DOMAIN wk : WorkerClosed(w)
    \/ \E w \in DOMAIN wk : WorkerPush(w)
    \/ \E w \in DOMAIN wk : WorkerPushCtxDone(w)
    \/ ProducerSend
    \/ ProducerCtxDone
    \/ ProducerFinish
    \/ CloserClose
    \/ CollectRecv
    \/ CollectEnd
    \/ ReturnprocessURLs
    \/ Timeout

NextProgress ==
    \/ ProgressTick
    \/ ProgressCtxDone

(***************************************************************************)
(* processURLs called directly, as TestProcessURLs does                    *)
(***************************************************************************)
IdlePF == [mode |-> "none", pc |-> "idle", lineIdx |-> 1, lineCount |-> 0, urls |-> << >>,
           allResults |-> << >>, totalStats |-> NewStats(0), err |-> "nil"]
NoOut == [done |-> FALSE, written |-> << >>]

PipelineIdle ==
    /\ cfg = [workers |-> 0, validateURLs |-> FALSE, verbose |-> FALSE]
    /\ ctx = "live"
    /\ file = [lines |-> << >>, isLarge |-> FALSE]
    /\ pf = IdlePF
    /\ pu = IdlePU
    /\ stats = NewStats(0)
    /\ urlChan = NoChan
    /\ resultsChan = NoChan
    /\ wk = << >>
    /\ producer = IdleProducer
    /\ closer = "idle"
    /\ progress = IdleProgress
    /\ ticks = 0
    /\ emitted = << >>
    /\ out = NoOut

\* the URL lists handed to processURLs
URLs_Test == <<U_clean, U_pathOnly, U_extPath, U_invalid>>
URLs_Mixed == <<U_kwExt, << >>, U_bareKw, U_segColon, U_kwExt>>
URLs_Cats == <<U_kwExt, U_extPath, U_hidden>>
URLs_Ten == <<U_keyword, U_invalid, U_clean, U_clean, U_clean, U_clean, U_clean, U_clean,
              U_clean, U_keyword>>
\* invalid URLs that a pattern would match come first
URLs_Gate == <<U_bareKw, U_segColon, U_keyword>>

Scenario(urls, workers, validate, verbose, c) ==
    [urls |-> urls, workers |-> workers, validateURLs |-> validate, verbose |-> verbose,
     checker |-> c]

AllOn == URLChecker(TRUE, TRUE, TRUE, TRUE, << >>)

TestScenarios ==
    { Scenario(URLs_Test, 2, TRUE, FALSE, URLChecker(FALSE, TRUE, TRUE, FALSE, << >>)) }
    \cup { Scenario(URLs_Mixed, w, v, FALSE, AllOn) : w \in {0, 1}, v \in BOOLEAN }
    \cup { Scenario(URLs_Mixed, 1, TRUE, TRUE, AllOn) }
    \cup { Scenario(URLs_Cats, 1, TRUE, FALSE, URLChecker(kw, ext, pth, hid, << >>)) :
             kw \in BOOLEAN, ext \in BOOLEAN, pth \in BOOLEAN, hid \in BOOLEAN }
    \cup { Scenario(URLs_Ten, 2, TRUE, FALSE, AllOn) }
    \cup { Scenario(URLs_Gate, 1, TRUE, FALSE, AllOn) }
    \cup { Scenario(<< >>, 1, TRUE, FALSE, AllOn) }

InitRun(sc, lines, mode, pc, isLarge) ==
    /\ call = NoCall
    /\ checker = sc.checker
    /\ cfg = [workers |-> sc.workers, validateURLs |-> sc.validateURLs,
              verbose |-> sc.verbose]
    /\ ctx = "live"
    /\ file = [lines |-> lines, isLarge |-> isLarge]
    /\ pf = [IdlePF EXCEPT !.mode = mode, !.pc = pc]
    /\ pu = IdlePU
    /\ stats = NewStats(0)
    /\ urlChan = NoChan
    /\ resultsChan = NoChan
    /\ wk = << >>
    /\ producer = IdleProducer
    /\ closer = "idle"
    /\ progress = IdleProgress
    /\ ticks = 0
    /\ emitted = << >>
    /\ out = NoOut

InitURLs == \E sc \in TestScenarios : InitRun(sc, sc.urls, "test", "start", FALSE)

\* results, stats, err := processURLs(ctx, urls, uc, cfg)
TestCall ==
    /\ pf.mode = "test" /\ pf.pc = "start"
    /\ CallprocessURLs(file.lines)
    /\ pf' = [pf EXCEPT !.pc = "processing"]
    /\ UNCHANGED <<call, checker, cfg, ctx, file, out>>

NextURLs == TestCall \/ NextPipeline \/ NextProgress

SpecURLs == InitURLs /\ [][NextURLs]_vars

(***************************************************************************)
(* processFile, processLargeFile, writeResults                             *)
(***************************************************************************)
\* Lines between two looks at the context while a small file is loaded
\* (10000 in the source; scaled to the size of the modelled files).
progressInterval == 3
\* URLs per chunk of a large file (50000 in the source; scaled likewise).
chunkSize == 2

\* sort.Slice(results, by URL), as an insertion sort
RECURSIVE SortByURL(_)
InsertByURL(r, sorted) ==
    LET before == SelectSeq(sorted, LAMBDA x : ~StringLess(r.URL, x.URL))
        after  == SelectSeq(sorted, LAMBDA x : StringLess(r.URL, x.URL))
    IN  before \o <<r>> \o after
SortByURL(results) ==
    IF results = << >> THEN << >>
    ELSE InsertByURL(Head(results), SortByURL(Tail(results)))

\* Mutant: the results are written in the order given, unsorted.
writeResultsUnsorted(results) == [done |-> TRUE, written |-> results]

\* writeResults: nothing is written for no results, else the results sorted by URL
writeResults(results) ==
    [done |-> TRUE, written |-> IF Len(results) = 0 THEN << >> ELSE SortByURL(results)]

\* "line == "" || HasPrefix(line, "#") || HasPrefix(line, "//")" on the trimmed line
SkippedLine(line) ==
    line = << >> \/ HasPrefix(line, <<"#">>) \/ HasPrefix(line, <<"/", "/">>)

\* totalStats.X += stats.X of processLargeFile: SkippedURLs is not carried over
AddStats(total, st) ==
    [total EXCEPT !.TotalURLs      = @ + st.TotalURLs,
                  !.ProcessedURLs  = @ + st.ProcessedURLs,
                  !.SuspiciousURLs = @ + st.SuspiciousURLs,
                  !.InvalidURLs    = @ + st.InvalidURLs]

\* Mutant: the results of a chunk replace those of the chunks before.
AppendResultsLastChunkOnly(all, results) == results

\* allResults = append(allResults, results...)
AppendResults(all, results) == all \o results

\* Mutant: a passed deadline is fatal like any other error.
FatalErrAnyError(err) == err # "nil"

\* the error test after processURLs: anything but nil and DeadlineExceeded is fatal
FatalErr(err) == err # "nil" /\ err # "DeadlineExceeded"

\* processFile: one turn of the scanner loop of a small file
ReadLine ==
    /\ pf.mode = "file" /\ pf.pc = "load"
    /\ pf.lineIdx <= Len(file.lines)
    /\ LET line  == TrimSpace(file.lines[pf.lineIdx])
           count == pf.lineCount + 1
       IN  IF SkippedLine(line)
           THEN pf' = [pf EXCEPT !.lineIdx = @ + 1, !.lineCount = count]
           ELSE IF count % progressInterval = 0 /\ ctx # "live"
           THEN pf' = [pf EXCEPT !.lineIdx = @ + 1, !.lineCount = count,
                                 !.urls = Append(@, line),
                                 !.pc = "returned", !.err = CtxErr(ctx)]
           ELSE pf' = [pf EXCEPT !.lineIdx = @ + 1, !.lineCount = count,
                                 !.urls = Append(@, line)]
    /\ UNCHANGED <<call, checker, cfg, ctx, file, pu, stats, urlChan, resultsChan, wk,
                   producer, closer, progress, ticks, emitted, out>>

\* processFile: the file is read, processURLs(ctx, urls, ...) is called
FileCall ==
    /\ pf.mode = "file" /\ pf.pc = "load"
    /\ pf.lineIdx > Len(file.lines)
    /\ CallprocessURLs(pf.urls)
    /\ pf' = [pf EXCEPT !.pc = "processing"]
    /\ UNCHANGED <<call, checker, cfg, ctx, file, out>>

\* processFile: from the return of processURLs to the return of writeResults
FileFinish ==
    /\ pf.mode = "file" /\ pf.pc = "processing"
    /\ pu.pc = "returned"
    /\ IF FatalErr(pu.err)
       THEN /\ pf' = [pf EXCEPT !.pc = "returned", !.err = "error processing URLs"]
            /\ out' = out
       ELSE /\ pf' = [pf EXCEPT !.pc = "returned", !.err = "nil",
                                !.allResults = removeDuplicates(pu.results),
                                !.totalStats = stats]
            /\ out' = writeResults(removeDuplicates(pu.results))
    /\ UNCHANGED <<call, checker, cfg, ctx, file, pu, stats, urlChan, resultsChan, wk,
                   producer, closer, progress, ticks, emitted>>

\* processLargeFile: one turn of the scanner loop; a full chunk is handed
\* to processURLs
LargeReadLine ==
    /\ pf.mode = "large" /\ pf.pc = "load"
    /\ pf.lineIdx <= Len(file.lines)
    /\ LET line  == TrimSpace(file.lines[pf.lineIdx])
           chunk == Append(pf.urls, line)
       IN  IF SkippedLine(line)
           THEN /\ pf' = [pf EXCEPT !.lineIdx = @ + 1, !.lineCount = @ + 1]
                /\ UNCHANGED <<pu, stats, urlChan, resultsChan, wk, producer, closer,
                               progress, ticks, emitted>>
           ELSE IF Len(chunk) >= chunkSize
           THEN /\ pf' = [pf EXCEPT !.lineIdx = @ + 1, !.lineCount = @ + 1,
                                    !.urls = chunk, !.pc = "chunk"]
                /\ CallprocessURLs(chunk)
           ELSE /\ pf' = [pf EXCEPT !.lineIdx = @ + 1, !.lineCount = @ + 1,
                                    !.urls = chunk]
                /\ UNCHANGED <<pu, stats, urlChan, resultsChan, wk, producer, closer,
                               progress, ticks, emitted>>
    /\ UNCHANGED <<call, checker, cfg, ctx, file, out>>

\* processLargeFile: from the return of processURLs for a full chunk to the
\* look at the context that follows it
LargeAfterChunk ==
    /\ pf.mode = "large" /\ pf.pc = "chunk"
    /\ pu.pc = "returned"
    /\ IF FatalErr(pu.err)
       THEN pf' = [pf EXCEPT !.pc = "returned", !.err = "error processing chunk"]
       ELSE LET acc == [pf EXCEPT !.allResults = AppendResults(@, pu.results),
                                  !.totalStats = AddStats(@, stats),
                                  !.urls = << >>]
            IN  IF ctx # "live"
                THEN pf' = [acc EXCEPT !.pc = "returned", !.err = CtxErr(ctx)]
                ELSE pf' = [acc EXCEPT !.pc = "load"]
    /\ UNCHANGED <<call, checker, cfg, ctx, file, pu, stats, urlChan, resultsChan, wk,
                   producer, closer, progress, ticks, emitted, out>>

\* processLargeFile: the file is read and URLs remain: the final chunk
LargeFinalCall ==
    /\ pf.mode = "large" /\ pf.pc = "load"
    /\ pf.lineIdx > Len(file.lines)
    /\ Len(pf.urls) > 0
    /\ CallprocessURLs(pf.urls)
    /\ pf' = [pf EXCEPT !.pc = "final"]
    /\ UNCHANGED <<call, checker, cfg, ctx, file, out>>

\* processLargeFile: after the final chunk, if any: removeDuplicates, writeResults
LargeFinish ==
    /\ pf.mode = "large"
    /\ \/ pf.pc = "final" /\ pu.pc = "returned"
       \/ pf.pc = "load" /\ pf.lineIdx > Len(file.lines) /\ Len(pf.urls) = 0
    /\ IF pf.pc = "final" /\ FatalErr(pu.err)
       THEN /\ pf' = [pf EXCEPT !.pc = "returned", !.err = "error processing final chunk"]
            /\ out' = out
       ELSE LET all == IF pf.pc = "final" THEN AppendResults(pf.allResults, pu.results)
                       ELSE pf.allResults
                tot == IF pf.pc = "final" THEN AddStats(pf.totalStats, stats)
                       ELSE pf.totalStats
            IN  /\ pf' = [pf EXCEPT !.pc = "returned", !.err = "nil",
                                    !.allResults = removeDuplicates(all),
                                    !.totalStats = tot]
                /\ out' = writeResults(removeDuplicates(all))
    /\ UNCHANGED <<call, checker, cfg, ctx, file, pu, stats, urlChan, resultsChan, wk,
                   producer, closer, progress, ticks, emitted>>

NextFile ==
    \/ ReadLine
    \/ FileCall
    \/ FileFinish
    \/ LargeReadLine
    \/ LargeAfterChunk
    \/ LargeFinalCall
    \/ LargeFinish
    \/ NextPipeline
    \/ NextProgress

\* the files: lines as read, before trimming
L_comment == <<"#", " ", "x">>
L_slashes == <<"/", "/", "x">>
L_padKw   == <<" ">> \o U_keyword \o <<" ">>

Lines_Mixed == <<L_padKw, L_comment, U_ext, << >>, U_keyword, L_slashes, U_bareKw, U_path>>
Lines_Ten   == URLs_Ten

FileScenarios ==
    { Scenario(Lines_Mixed, w, v, FALSE, AllOn) : w \in {0, 1}, v \in BOOLEAN }
    \cup { Scenario(Lines_Mixed, 1, TRUE, TRUE, AllOn) }
    \cup { Scenario(Lines_Ten, 2, TRUE, FALSE, AllOn) }
    \cup { Scenario(<<L_comment>>, 1, TRUE, FALSE, AllOn) }

InitFile ==
    \E sc \in FileScenarios, isLarge \in BOOLEAN :
        InitRun(sc, sc.urls, IF isLarge THEN "large" ELSE "file", "load", isLarge)

SpecFile == InitFile /\ [][NextFile]_vars

\* Fair scheduling of the goroutines of processURLs.  A select with
\* several ready cases picks one at random, so a goroutine whose
\* case <-ctx.Done() stays ready takes it in the end; a goroutine that can
\* only finish, close or receive is run in the end.  Nothing is assumed
\* about the steps that take a URL or push a result.
WorkerIds == 1..2

WorkerExit(w) ==
    /\ w \in DOMAIN wk
    /\ (WorkerCtxDone(w) \/ WorkerPushCtxDone(w) \/ WorkerClosed(w))

PipelineFairness ==
    /\ \A w \in WorkerIds : WF_vars(WorkerExit(w))
    /\ WF_vars(ProducerCtxDone \/ ProducerFinish)
    /\ WF_vars(CloserClose)
    /\ WF_vars(CollectRecv \/ CollectEnd \/ ReturnprocessURLs)
    /\ WF_vars(ProgressCtxDone)

Lines_Short == <<L_padKw, L_comment, U_ext, U_keyword>>

FairScenarios == { Scenario(Lines_Short, 1, TRUE, verbose, AllOn) : verbose \in BOOLEAN }

InitFileFair ==
    \E sc \in FairScenarios, isLarge \in BOOLEAN :
        InitRun(sc, sc.urls, IF isLarge THEN "large" ELSE "file", "load", isLarge)

SpecFileFair == InitFileFair /\ [][NextFile]_vars /\ PipelineFairness

(***************************************************************************)
(* processFile with two workers on a file of several suspicious URLs       *)
(***************************************************************************)
\* two different suspicious URLs first, one of them again at the end
Lines_Order == <<U_keyword, U_ext, U_clean, U_clean, U_clean, U_clean, U_clean, U_clean,
                 U_clean, U_keyword>>

InitOrder ==
    \/ InitFileFair
    \/ InitRun(Scenario(Lines_Order, 2, TRUE, FALSE, AllOn), Lines_Order, "file", "load",
               FALSE)

SpecOrder == InitOrder /\ [][NextFile]_vars


(***************************************************************************)
(* Single calls of the classifier, the validator and removeDuplicates      *)
(***************************************************************************)
(***************************************************************************)
(* processURLs called directly, under fair scheduling                      *)
(***************************************************************************)
\* eight URLs for one worker: enough to fill both channels
URLs_Eight == <<U_keyword, U_ext, U_path, U_clean, U_clean, U_clean, U_clean, U_hidden>>

InitURLsFair ==
    \E verbose \in BOOLEAN :
        InitRun(Scenario(URLs_Eight, 1, TRUE, verbose, AllOn), URLs_Eight, "test", "start",
                FALSE)

SpecURLsFair == InitURLsFair /\ [][NextURLs]_vars /\ PipelineFairness

(***************************************************************************)
(* processFile under a context its caller may cancel                       *)
(***************************************************************************)
\* the caller's cancel() of the context given to processFile
Cancel ==
    /\ ctx = "live"
    /\ pf.pc # "returned"
    /\ ctx' = "canceled"
    /\ UNCHANGED <<call, checker, cfg, file, pf, pu, stats, urlChan, resultsChan, wk,
                   producer, closer, progress, ticks, emitted, out>>

NextAbort == Cancel \/ NextFile

SpecAbort == InitFileFair /\ [][NextAbort]_vars

(***************************************************************************)
(* main: the run context                                                   *)
(***************************************************************************)
\* the values of the -t flag: zero and the default
Timeouts == {"0", "300s"}

\* context.WithTimeout(context.Background(), timeout): a deadline that is
\* not in the future cancels the context on the spot
WithTimeout(timeout) == IF timeout = "0" THEN "deadline" ELSE "live"

\* src/main.go: ctx, cancel := context.WithTimeout(..., config.timeout)
BuildContextMain(timeout) ==
    [ctx |-> WithTimeout(timeout), hasDeadline |-> TRUE]

\* src/cmd/juicyurls/main.go: context.WithCancel when cfg.Timeout == 0
BuildContextCmd(timeout) ==
    IF timeout = "0" THEN [ctx |-> "live", hasDeadline |-> FALSE]
    ELSE [ctx |-> WithTimeout(timeout), hasDeadline |-> TRUE]

InitMain ==
    \E sc \in FairScenarios, isLarge \in BOOLEAN, timeout \in Timeouts :
        /\ call = NoCall
        /\ checker = sc.checker
        /\ cfg = [workers |-> sc.workers, validateURLs |-> sc.validateURLs,
                  verbose |-> sc.verbose, timeout |-> timeout]
        /\ ctx = "none"
        /\ file = [lines |-> sc.urls, isLarge |-> isLarge]
        /\ pf = [IdlePF EXCEPT !.mode = IF isLarge THEN "large" ELSE "file", !.pc = "main"]
        /\ pu = IdlePU
        /\ stats = NewStats(0)
        /\ urlChan = NoChan
        /\ resultsChan = NoChan
        /\ wk = << >>
        /\ producer = IdleProducer
        /\ closer = "idle"
        /\ progress = IdleProgress
        /\ ticks = 0
        /\ emitted = << >>
        /\ out = NoOut

\* main of src/main.go: the context is built and processFile is called
MainBuildContext ==
    /\ pf.pc = "main"
    /\ ctx' = BuildContextMain(cfg.timeout).ctx
    /\ pf' = [pf EXCEPT !.pc = "load"]
    /\ UNCHANGED <<call, checker, cfg, file, pu, stats, urlChan, resultsChan, wk,
                   producer, closer, progress, ticks, emitted, out>>

\* main of src/main.go: if err := processFile(ctx, config); err != nil { log.Fatalf }
MainFatal == pf.pc = "returned" /\ pf.err # "nil"

NextMain == MainBuildContext \/ NextFile

SpecMain == InitMain /\ [][NextMain]_vars

(***************************************************************************)
(* The workers' calls of isSuspicious, step by step: compiledOnce.Do       *)
(***************************************************************************)
\* sync.Once is a done flag and a mutex.  Do loads done and returns if it
\* is set; else doSlow locks the mutex, loads done again, and if it is
\* still clear runs the body, stores done and unlocks.  The done flag is
\* checker.compiledOnce; the mutex is held by the worker found at one of
\* the positions between Lock and Unlock.
BodyPcs == <<"bodyExclude", "bodyKeywords", "bodyExtensions", "bodyPaths", "bodyHidden">>
BodyPcSet == { BodyPcs[k] : k \in DOMAIN BodyPcs }
HolderPcs == {"locked", "bodyEnd", "unlock"} \cup BodyPcSet
MutexHeld == \E w \in DOMAIN wk : wk[w].pc \in HolderPcs

\* the k-th loop of the body of compileRegexes
CompileStage(c, k) ==
    CASE k = 1 -> [c EXCEPT !.excludeRegexes = @ \o CompileList(c.excludePatterns, FALSE)]
      [] k = 2 -> IF c.checkKeywords
                  THEN [c EXCEPT !.keywordRegexes = @ \o CompileList(Keywords, FALSE)]
                  ELSE c
      [] k = 3 -> IF c.checkExtensions
                  THEN [c EXCEPT !.extensionRegexes = @ \o CompileList(Extensions, TRUE)]
                  ELSE c
      [] k = 4 -> IF c.checkPaths
                  THEN [c EXCEPT !.pathRegexes = @ \o CompileList(Paths, FALSE)]
                  ELSE c
      [] k = 5 -> IF c.checkHidden
                  THEN [c EXCEPT !.hiddenRegexes = @ \o CompileList(Hidden, FALSE)]
                  ELSE c

\* worker: a URL is received; blank and invalid URLs are dealt with as in
\* WorkerRecv, any other enters isSuspicious, which answers an empty or
\* overlong URL at once and else calls compileRegexes
WorkerTake(w) ==
    /\ wk[w].pc = "select"
    /\ urlChan.buf # << >>
    /\ LET rawURL == Head(urlChan.buf)
       IN  /\ urlChan' = [urlChan EXCEPT !.buf = Tail(@)]
           /\ IF TrimSpace(rawURL) = << >>
              THEN wk' = [wk EXCEPT ![w].local.skipped = @ + 1]
              ELSE IF cfg.validateURLs /\ ~isValidURL(rawURL)
              THEN wk' = [wk EXCEPT ![w].local.invalid = @ + 1,
                                    ![w].local.processed = @ + 1]
              ELSE IF rawURL = << >> \/ Len(rawURL) > maxURLLength
              THEN wk' = [wk EXCEPT ![w].local.processed = @ + 1]
              ELSE wk' = [wk EXCEPT ![w].pc = "Do", ![w].pending = Result(rawURL, "", "")]
    /\ UNCHANGED <<call, checker, cfg, ctx, file, pf, pu, stats, resultsChan, producer,
                   closer, progress, ticks, emitted, out>>

\* Once.Do: done is loaded; set, Do returns; clear, doSlow is entered
OnceDo(w) ==
    /\ wk[w].pc = "Do"
    /\ wk' = [wk EXCEPT ![w].pc = IF checker.compiledOnce THEN "match" ELSE "doSlow"]
    /\ UNCHANGED <<call, checker, cfg, ctx, file, pf, pu, stats, urlChan, resultsChan,
                   producer, closer, progress, ticks, emitted, out>>

\* Mutant: doSlow does not take the mutex.
OnceLockNoMutex(w) ==
    /\ wk[w].pc = "doSlow"
    /\ wk' = [wk EXCEPT ![w].pc = "locked"]
    /\ UNCHANGED <<call, checker, cfg, ctx, file, pf, pu, stats, urlChan, resultsChan,
                   producer, closer, progress, ticks, emitted, out>>

\* doSlow: o.m.Lock()
OnceLock(w) ==
    /\ wk[w].pc = "doSlow"
    /\ ~MutexHeld
    /\ wk' = [wk EXCEPT ![w].pc = "locked"]
    /\ UNCHANGED <<call, checker, cfg, ctx, file, pf, pu, stats, urlChan, resultsChan,
                   producer, closer, progress, ticks, emitted, out>>

\* doSlow: done is loaded again under the mutex
OnceRecheck(w) ==
    /\ wk[w].pc = "locked"
    /\ wk' = [wk EXCEPT ![w].pc = IF checker.compiledOnce THEN "unlock" ELSE BodyPcs[1]]
    /\ UNCHANGED <<call, checker, cfg, ctx, file, pf, pu, stats, urlChan, resultsChan,
                   producer, closer, progress, ticks, emitted, out>>

\* the body of compileRegexes, one loop at a time
OnceBody(w, k) ==
    /\ wk[w].pc = BodyPcs[k]
    /\ checker' = CompileStage(checker, k)
    /\ wk' = [wk EXCEPT ![w].pc = IF k < Len(BodyPcs) THEN BodyPcs[k + 1] ELSE "bodyEnd"]
    /\ UNCHANGED <<call, cfg, ctx, file, pf, pu, stats, urlChan, resultsChan, producer,
                   closer, progress, ticks, emitted, out>>

\* doSlow: the deferred o.done.Store(1)
OnceStore(w) ==
    /\ wk[w].pc = "bodyEnd"
    /\ checker' = [checker EXCEPT !.compiledOnce = TRUE]
    /\ wk' = [wk EXCEPT ![w].pc = "unlock"]
    /\ UNCHANGED <<call, cfg, ctx, file, pf, pu, stats, urlChan, resultsChan, producer,
                   closer, progress, ticks, emitted, out>>

\* doSlow: the deferred o.m.Unlock(); compileRegexes returns
OnceUnlock(w) ==
    /\ wk[w].pc = "unlock"
    /\ wk' = [wk EXCEPT ![w].pc = "match"]
    /\ UNCHANGED <<call, checker, cfg, ctx, file, pf, pu, stats, urlChan, resultsChan,
                   producer, closer, progress, ticks, emitted, out>>

\* isSuspicious after compileRegexes: the cascade over the regex lists as
\* they are, and the worker's next step
OnceMatch(w) ==
    /\ wk[w].pc = "match"
    /\ LET r == Cascade(checker, wk[w].pending.URL)
       IN  IF r.suspicious
           THEN wk' = [wk EXCEPT ![w].pc = "push",
                                 ![w].pending = Result(@.URL, r.category, r.reason)]
           ELSE wk' = [wk EXCEPT ![w].pc = "select",
                                 ![w].pending = NoResult,
                                 ![w].local.processed = @ + 1]
    /\ UNCHANGED <<call, checker, cfg, ctx, file, pf, pu, stats, urlChan, resultsChan,
                   producer, closer, progress, ticks, emitted, out>>

NextOnce ==
    \/ TestCall
    \/ \E w \in DOMAIN wk : WorkerTake(w)
    \/ \E w \in DOMAIN wk : OnceDo(w)
    \/ \E w \in DOMAIN wk : OnceLock(w)
    \/ \E w \in DOMAIN wk : OnceRecheck(w)
    \/ \E w \in DOMAIN wk, k \in DOMAIN BodyPcs : OnceBody(w, k)
    \/ \E w \in DOMAIN wk : OnceStore(w)
    \/ \E w \in DOMAIN wk : OnceUnlock(w)
    \/ \E w \in DOMAIN wk : OnceMatch(w)
    \/ \E w \in DOMAIN wk : WorkerClosed(w)
    \/ \E w \in DOMAIN wk : WorkerPush(w)
    \/ ProducerSend
    \/ ProducerFinish
    \/ CloserClose
    \/ CollectRecv
    \/ CollectEnd
    \/ ReturnprocessURLs

\* two workers on the checker as main builds it, nothing compiled, with all
\* categories, with one, and with exclusions of which one does not
\* compile; and on a checker compiled beforehand
OnceCheckers ==
    { AllOn,
      URLChecker(FALSE, TRUE, FALSE, FALSE, << >>),
      URLChecker(TRUE, TRUE, TRUE, TRUE,
                 << <<"c", "l", "e", "a", "n">>, <<"c", "o", "m", InvalidByte>> >>),
      compileRegexes(AllOn) }

InitOnce ==
    \E c \in OnceCheckers :
        InitRun(Scenario(URLs_Ten, 2, TRUE, FALSE, c), URLs_Ten, "test", "start", FALSE)

SpecOnce == InitOnce /\ [][NextOnce]_vars

\* config.workers and len(urls) as processURLs may be given them
WorkerConfigs == {-1, 0, 1, 2, 3, 4, 50, 100, 101, 499, 500, 501, 1000}
InputSizes == {1, 9, 10, 11, 19, 20, 29, 30, 990, 999, 1000, 1001, 4990, 5000, 10000}

InitCallInputs ==
    \/ /\ checker \in AllCheckers
       /\ \E u \in ClassifyURLs :
            call = [op |-> "isSuspicious", arg |-> u, ret |-> NotSuspicious,
                    returned |-> FALSE]
    \/ /\ \E kw \in BOOLEAN, ext \in BOOLEAN, pth \in BOOLEAN, hid \in BOOLEAN,
            ex \in ExcludeLists :
            checker = NewURLChecker(
                        (IF kw THEN <<KEYWORDS>> ELSE << >>) \o
                        (IF ext THEN <<EXTENSIONS>> ELSE << >>) \o
                        (IF pth THEN <<PATHS>> ELSE << >>) \o
                        (IF hid THEN <<HIDDEN>> ELSE << >>), ex)
       /\ \E u \in ClassifyURLs :
            call = [op |-> "IsSuspicious", arg |-> u, ret |-> NotSuspicious,
                    returned |-> FALSE]
    \/ /\ checker = URLChecker(TRUE, TRUE, TRUE, TRUE, << >>)
       /\ \E u \in ValidateURLs, op \in {"isValidURL", "IsValidURL"} :
            call = [op |-> op, arg |-> u, ret |-> FALSE, returned |-> FALSE]
    \/ /\ checker = URLChecker(TRUE, TRUE, TRUE, TRUE, << >>)
       /\ \E rs \in DedupInputs :
            call = [op |-> "removeDuplicates", arg |-> rs, ret |-> << >>,
                    returned |-> FALSE]
    \/ /\ checker = URLChecker(TRUE, TRUE, TRUE, TRUE, << >>)
       /\ \E entry \in {"src/main.go", "src/cmd/juicyurls/main.go"}, timeout \in Timeouts :
            call = [op |-> "buildContext", arg |-> <<entry, timeout>>, ret |-> FALSE,
                    returned |-> FALSE]
    \/ /\ checker = URLChecker(TRUE, TRUE, TRUE, TRUE, << >>)
       /\ \E configured \in WorkerConfigs, n \in InputSizes :
            call = [op |-> "numWorkers", arg |-> <<configured, n>>, ret |-> 0,
                    returned |-> FALSE]

InitCalls == PipelineIdle /\ InitCallInputs

CallisSuspicious ==
    /\ call.op = "isSuspicious" /\ ~call.returned
    /\ call' = [call EXCEPT !.ret = isSuspicious(checker, call.arg), !.returned = TRUE]
    /\ checker' = isSuspiciousChecker(checker, call.arg)
    /\ UNCHANGED pipeVars

CallIsSuspicious ==
    /\ call.op = "IsSuspicious" /\ ~call.returned
    /\ call' = [call EXCEPT !.ret = IsSuspicious(checker, call.arg), !.returned = TRUE]
    /\ UNCHANGED checker
    /\ UNCHANGED pipeVars

CallisValidURL ==
    /\ call.op = "isValidURL" /\ ~call.returned
    /\ call' = [call EXCEPT !.ret = isValidURL(call.arg), !.returned = TRUE]
    /\ UNCHANGED checker
    /\ UNCHANGED pipeVars

CallIsValidURL ==
    /\ call.op = "IsValidURL" /\ ~call.returned
    /\ call' = [call EXCEPT !.ret = IsValidURL(call.arg), !.returned = TRUE]
    /\ UNCHANGED checker
    /\ UNCHANGED pipeVars

CallremoveDuplicates ==
    /\ call.op = "removeDuplicates" /\ ~call.returned
    /\ call' = [call EXCEPT !.ret = removeDuplicates(call.arg), !.returned = TRUE]
    /\ UNCHANGED checker
    /\ UNCHANGED pipeVars

\* the computation of numWorkers at the head of processURLs
CallnumWorkers ==
    /\ call.op = "numWorkers" /\ ~call.returned
    /\ call' = [call EXCEPT !.ret = NumWorkers(call.arg[1], call.arg[2]), !.returned = TRUE]
    /\ UNCHANGED checker
    /\ UNCHANGED pipeVars

\* the context main builds from the timeout, in either entry point
CallbuildContext ==
    /\ call.op = "buildContext" /\ ~call.returned
    /\ call' = [call EXCEPT !.ret = IF call.arg[1] = "src/main.go"
                                    THEN BuildContextMain(call.arg[2])
                                    ELSE BuildContextCmd(call.arg[2]),
                            !.returned = TRUE]
    /\ UNCHANGED checker
    /\ UNCHANGED pipeVars

NextCalls ==
    \/ CallbuildContext
    \/ CallnumWorkers
    \/ CallisSuspicious
    \/ CallIsSuspicious
    \/ CallisValidURL
    \/ CallIsValidURL
    \/ CallremoveDuplicates

SpecCalls == InitCalls /\ [][NextCalls]_vars

(***************************************************************************)
(* Reference notions the claims are stated in                              *)
(***************************************************************************)
\* p occurs in u, letter case ignored
PatternOccurs(p, u) ==
    \E i \in 0..(Len(u) - Len(p)) : \A j \in 1..Len(p) : Fold(u[i + j]) = Fold(p[j])

\* u ends with p, letter case ignored
PatternEnds(p, u) ==
    Len(p) <= Len(u) /\ \A j \in 1..Len(p) : Fold(u[Len(u) - Len(p) + j]) = Fold(p[j])

\* u matches one of the exclusion patterns that are in use
Excluded(c, u) ==
    \E k \in 1..Len(c.excludePatterns) :
        CompileOK(c.excludePatterns[k]) /\ PatternOccurs(c.excludePatterns[k], u)

CategoryOrder == <<"keywords", "extensions", "paths", "hidden">>

CategoryEnabled(c, cat) ==
    CASE cat = "keywords"   -> c.checkKeywords
      [] cat = "extensions" -> c.checkExtensions
      [] cat = "paths"      -> c.checkPaths
      [] cat = "hidden"     -> c.checkHidden

CategoryMatches(cat, u) ==
    CASE cat = "keywords"   -> \E k \in 1..Len(Keywords) : PatternOccurs(Keywords[k], u)
      [] cat = "extensions" -> \E k \in 1..Len(Extensions) : PatternEnds(Extensions[k], u)
      [] cat = "paths"      -> \E k \in 1..Len(Paths) : PatternOccurs(Paths[k], u)
      [] cat = "hidden"     -> \E k \in 1..Len(Hidden) : PatternOccurs(Hidden[k], u)

\* the positions in CategoryOrder of the enabled categories that u matches
Hits(c, u) ==
    { n \in 1..Len(CategoryOrder) :
        CategoryEnabled(c, CategoryOrder[n]) /\ CategoryMatches(CategoryOrder[n], u) }

ClassifierCall == call.op \in {"isSuspicious", "IsSuspicious"} /\ call.returned

(***************************************************************************)
(* Claims                                                                  *)
(***************************************************************************)
\* C1: a URL that matches an exclusion pattern is reported not suspicious,
\* with empty category and reason, whatever categories are enabled and
\* whatever else the URL matches (isSuspicious and checker.IsSuspicious).
C1_ExclusionWins ==
    (ClassifierCall /\ Excluded(checker, call.arg)) => call.ret = NotSuspicious

\* C1 witness: an excluded URL that holds a keyword, keywords enabled, classified.
C1_Witness ==
    /\ call.op = "isSuspicious" /\ call.returned
    /\ call.arg = U_safeBad
    /\ checker.checkKeywords /\ CategoryMatches("keywords", call.arg)
    /\ Excluded(checker, call.arg)
    /\ call.ret = NotSuspicious

\* C2: for a URL within the length limit that no exclusion matches,
\* isSuspicious reports exactly the first category, in the order keywords,
\* extensions, paths, hidden, among the enabled ones the URL matches, and
\* reports not suspicious when there is none.
C2_FirstCategoryWins ==
    (call.op = "isSuspicious" /\ call.returned /\ ~Excluded(checker, call.arg)
        /\ Len(call.arg) <= maxURLLength) =>
        LET hits == Hits(checker, call.arg)
        IN  IF hits = {}
            THEN call.ret = NotSuspicious
            ELSE /\ call.ret.suspicious
                 /\ \E n \in hits : /\ \A m \in hits : n <= m
                                    /\ call.ret.category = CategoryOrder[n]

\* C2 witness: a URL holding a keyword and ending in an extension, every
\* category enabled, reported under keywords.
C2_Witness ==
    /\ call.op = "isSuspicious" /\ call.returned
    /\ call.arg = U_kwExt
    /\ ~Excluded(checker, call.arg)
    /\ {1, 2} \subseteq Hits(checker, call.arg)
    /\ call.ret.category = "keywords"

\* position of the first result of rs with URL u
FirstIndex(rs, u) ==
    CHOOSE j \in 1..Len(rs) : rs[j].URL = u /\ \A k \in 1..(j - 1) : rs[k].URL # u

\* C4: removeDuplicates returns each distinct URL of its input once, as the
\* first result that carries it, in the order of those first occurrences.
C4_RemoveDuplicates ==
    (call.op = "removeDuplicates" /\ call.returned) =>
        LET given == call.arg
            kept  == call.ret
        IN  /\ { kept[i].URL : i \in 1..Len(kept) } = { given[j].URL : j \in 1..Len(given) }
            /\ \A i \in 1..Len(kept) : kept[i] = given[FirstIndex(given, kept[i].URL)]
            /\ \A i, j \in 1..Len(kept) :
                 i < j => /\ kept[i].URL # kept[j].URL
                          /\ FirstIndex(given, kept[i].URL) < FirstIndex(given, kept[j].URL)

\* C4 witness: the list a, b, a, c of TestRemoveDuplicates, deduplicated to a, b, c.
C4_Witness ==
    /\ call.op = "removeDuplicates" /\ call.returned
    /\ call.arg = << Result(<<"a">>, "k", ""), Result(<<"b">>, "k", ""),
                     Result(<<"a">>, "k", ""), Result(<<"c">>, "k", "") >>
    /\ call.ret = << Result(<<"a">>, "k", ""), Result(<<"b">>, "k", ""),
                     Result(<<"c">>, "k", "") >>

\* the validity the specification describes
ValidAsSpecified(u) ==
    /\ Len(u) > 0
    /\ Len(u) <= maxURLLength
    /\ ParseOK(u)
    /\ \/ HasPrefix(u, HTTP) \/ HasPrefix(u, HTTPS) \/ HasPrefix(u, FTP)
       \/ \E i \in 1..Len(u) : u[i] = "."

\* C6: the URL validity check (isValidURL of src/main.go, IsValidURL of
\* internal/checker) answers true exactly for a URL that is not empty, not
\* longer than 2048, parses, and has one of the three scheme prefixes or a dot.
C6_ValidIffSpecified ==
    (call.op \in {"isValidURL", "IsValidURL"} /\ call.returned) =>
        (call.ret <=> ValidAsSpecified(call.arg))

\* C6, for isValidURL of src/main.go alone, where it holds.
C6_MainVariantOnly ==
    (call.op = "isValidURL" /\ call.returned) =>
        (call.ret <=> ValidAsSpecified(call.arg))

(***************************************************************************)
(* The pipeline: reference notions                                         *)
(***************************************************************************)
Range(seq) == { seq[i] : i \in DOMAIN seq }

\* how many elements of seq satisfy P
Count(seq, P(_)) == Cardinality({ i \in DOMAIN seq : P(seq[i]) })

Blank(u) == TrimSpace(u) = << >>

\* u passes the validation gate of the run
Admitted(u) == ~Blank(u) /\ (cfg.validateURLs => isValidURL(u))

\* u is an input the run has to report
Reportable(u) == Admitted(u) /\ isSuspicious(checker, u).suspicious

\* every result that exists anywhere in the run
ResultsAnywhere ==
    Range(emitted) \cup Range(pu.results) \cup Range(resultsChan.buf)
        \cup { wk[w].pending : w \in { v \in DOMAIN wk : wk[v].pc = "push" } }
        \cup Range(pf.allResults) \cup Range(out.written)

\* processURLs has returned and the context was never cancelled
ReturnedUncancelled == pf.mode = "test" /\ pu.pc = "returned" /\ ctx = "live"

\* C3: no result, whether returned by the classifier, held by a worker, in
\* the results channel, collected, accumulated or written, carries the
\* label of a category that is switched off in the checker.
C3_NoDisabledCategory ==
    /\ (ClassifierCall /\ call.ret.suspicious) => CategoryEnabled(checker, call.ret.category)
    /\ \A r \in ResultsAnywhere : CategoryEnabled(checker, r.Category)

\* C3 witness: keywords off, extensions on; a URL holding a keyword and
\* ending in an extension has come back from processURLs under extensions.
C3_Witness ==
    /\ pu.pc = "returned"
    /\ ~checker.checkKeywords /\ checker.checkExtensions
    /\ \E r \in Range(pu.results) :
         /\ r.URL = U_kwExt
         /\ CategoryMatches("keywords", r.URL)
         /\ r.Category = "extensions"

\* C5 as stated: after an uncancelled processURLs run with validation on,
\* the error is nil, InvalidURLs counts the inputs failing isValidURL,
\* SuspiciousURLs counts the valid inputs the classifier matches, and the
\* results are, as a multiset of URLs, those inputs.
C5_InvalidCountsEveryFailure ==
    (ReturnedUncancelled /\ cfg.validateURLs) =>
        /\ pu.err = "nil"
        /\ stats.InvalidURLs = Count(pu.urls, LAMBDA u : ~isValidURL(u))
        /\ stats.SuspiciousURLs = Count(pu.urls, Reportable)
        /\ \A u \in Range(pu.urls) \cup { r.URL : r \in Range(pu.results) } :
             Count(pu.results, LAMBDA r : r.URL = u) = Count(pu.urls, LAMBDA v : v = u /\ Reportable(v))

\* C5 amended: as above, but InvalidURLs counts the non-blank inputs
\* failing isValidURL; a blank input is counted in SkippedURLs instead.
C5_UncancelledRun ==
    (ReturnedUncancelled /\ cfg.validateURLs) =>
        /\ pu.err = "nil"
        /\ stats.InvalidURLs = Count(pu.urls, LAMBDA u : ~Blank(u) /\ ~isValidURL(u))
        /\ stats.SkippedURLs = Count(pu.urls, Blank)
        /\ stats.SuspiciousURLs = Count(pu.urls, Reportable)
        /\ \A u \in Range(pu.urls) \cup { r.URL : r \in Range(pu.results) } :
             Count(pu.results, LAMBDA r : r.URL = u) = Count(pu.urls, LAMBDA v : v = u /\ Reportable(v))

\* C5 witness: an uncancelled run with validation on over a list holding a
\* blank URL, invalid URLs and a matching URL twice.
C5_Witness ==
    /\ ReturnedUncancelled /\ cfg.validateURLs
    /\ \E i \in DOMAIN pu.urls : Blank(pu.urls[i])
    /\ stats.SkippedURLs = 1
    /\ stats.InvalidURLs = 2
    /\ Len(pu.results) = 2

\* C10: the set of URLs an uncancelled processURLs run reports is fixed by
\* the input and the configuration: it is the set of reportable inputs,
\* whatever the number of workers and the interleaving.
C10_SameSetEveryRun ==
    ReturnedUncancelled =>
        { r.URL : r \in Range(pu.results) } = { u \in Range(pu.urls) : Reportable(u) }

\* C10 witness: two workers have run to the end and a URL was reported.
C10_Witness ==
    /\ ReturnedUncancelled
    /\ pu.numWorkers = 2
    /\ \A w \in DOMAIN wk : wk[w].pc = "done"
    /\ { r.URL : r \in Range(pu.results) } = {U_keyword}

(***************************************************************************)
(* processFile and processLargeFile: reference notions                     *)
(***************************************************************************)
\* the URLs of the file: its lines trimmed, blank and comment lines left out
RECURSIVE URLsOf(_)
URLsOf(lines) ==
    IF lines = << >> THEN << >>
    ELSE LET line == TrimSpace(Head(lines))
         IN  (IF SkippedLine(line) THEN << >> ELSE <<line>>) \o URLsOf(Tail(lines))

\* rs is in ascending order of URL and holds no URL twice
SortedDistinct(rs) ==
    \A i \in DOMAIN rs : \A j \in DOMAIN rs : i < j => StringLess(rs[i].URL, rs[j].URL)

\* written holds exactly the distinct URLs of rs, each with a result of rs,
\* in ascending order
WrittenFrom(written, rs) ==
    /\ SortedDistinct(written)
    /\ Range(written) \subseteq Range(rs)
    /\ { r.URL : r \in Range(written) } = { r.URL : r \in Range(rs) }

\* C7: once the deadline has passed while processURLs runs, processURLs
\* returns; when it returns with the deadline passed, the error is
\* DeadlineExceeded; the results returned are the results the workers
\* emitted, every worker has exited and flushed its counters; processFile
\* then returns nil having written those results, deduplicated and sorted.
C7_DeadlineReturn ==
    /\ (ctx = "deadline" /\ pu.pc \in {"collect", "wait"}) ~> (pu.pc = "returned")
    /\ [][(pu.pc = "wait" /\ pu'.pc = "returned" /\ ctx = "deadline")
            => pu'.err = "DeadlineExceeded"]_vars
    /\ []((pu.pc = "returned" /\ pu.err = "DeadlineExceeded") =>
            /\ pu.results = emitted
            /\ \A w \in DOMAIN wk : wk[w].pc = "done"
            /\ stats.SuspiciousURLs = Len(emitted)
            /\ stats.ProcessedURLs <= stats.TotalURLs)
    /\ []((pf.mode = "file" /\ pf.pc = "returned" /\ pu.pc = "returned"
             /\ pu.err = "DeadlineExceeded") =>
            /\ pf.err = "nil"
            /\ out.done
            /\ WrittenFrom(out.written, emitted))

\* C7 witness: the deadline passed during processURLs, which returned
\* DeadlineExceeded with one result emitted and inputs left unprocessed;
\* processFile wrote that result.
C7_Witness ==
    /\ pf.mode = "file" /\ pf.pc = "returned"
    /\ pu.pc = "returned" /\ pu.err = "DeadlineExceeded"
    /\ Len(emitted) = 1
    /\ stats.ProcessedURLs < stats.TotalURLs
    /\ out.done /\ Len(out.written) = 1

\* C8 as stated: when processLargeFile returns after the deadline passed,
\* the results accumulated from the chunks have been deduplicated and
\* written.
C8_ChunkedTimeoutWritesResults ==
    (pf.mode = "large" /\ pf.pc = "returned" /\ ctx = "deadline"
        /\ pu.err = "DeadlineExceeded" /\ pf.allResults # << >>) =>
        /\ out.done
        /\ WrittenFrom(out.written, pf.allResults)

\* the totals of an uncancelled run over the file
TotalsAsExpected(total, urls) ==
    /\ total.TotalURLs = Len(urls)
    /\ total.ProcessedURLs = Len(urls)
    /\ total.SuspiciousURLs = Count(urls, Reportable)
    /\ total.InvalidURLs = Count(urls, LAMBDA u : ~Admitted(u))

\* C9: an uncancelled run yields, through processLargeFile as through the
\* non-chunked path of processFile, the reportable URLs of the file, each
\* once, in ascending order, and the same total, processed, suspicious and
\* invalid counts: both are the same function of the file.
C9_ChunkedEqualsWhole ==
    (pf.mode \in {"file", "large"} /\ pf.pc = "returned" /\ ctx = "live") =>
        LET urls == URLsOf(file.lines)
        IN  /\ pf.err = "nil"
            /\ out.done
            /\ SortedDistinct(out.written)
            /\ Range(out.written) =
                 { Result(u, isSuspicious(checker, u).category, isSuspicious(checker, u).reason) :
                     u \in { v \in Range(urls) : Reportable(v) } }
            /\ TotalsAsExpected(pf.totalStats, urls)

\* C9 witness: a large file read to the end in three chunks, a URL matched
\* in the first and in the second chunk, written once.
C9_Witness ==
    /\ pf.mode = "large" /\ pf.pc = "returned" /\ ctx = "live"
    /\ file.lines = Lines_Mixed
    /\ cfg.validateURLs
    /\ pf.totalStats.SuspiciousURLs = 4
    /\ pf.totalStats.InvalidURLs = 1
    /\ Len(out.written) = 3
    /\ Count(out.written, LAMBDA r : r.URL = U_keyword) = 1

\* C11: for a non-empty input the effective worker count N of processURLs
\* is at least 1 and at most 500; with a configured count of 0 or less it
\* is the CPU count, cut down by the same limits; for fewer than 1000 URLs
\* it is at most len(urls) / 10 + 1.
C11_WorkerCount ==
    (call.op = "numWorkers" /\ call.returned) =>
        LET configured == call.arg[1]
            n          == call.arg[2]
            N          == call.ret
            small      == (n \div 10) + 1
        IN  /\ 1 <= N /\ N <= 500
            /\ n < 1000 => N <= small
            /\ configured <= 0 =>
                 N = IF n < 1000 /\ small < NumCPU THEN small ELSE NumCPU
            /\ (configured > 0 /\ configured <= 500 /\ (n >= 1000 \/ configured <= small)) =>
                 N = configured

\* C11 witness: 501 workers configured for 5000 URLs: the cap applies.
C11_Witness ==
    /\ call.op = "numWorkers" /\ call.returned
    /\ call.arg = <<501, 5000>>
    /\ call.ret = 500

\* C12: in every state of a processURLs run the shared Stats satisfy
\* SuspiciousURLs <= ProcessedURLs <= TotalURLs, and every tuple the
\* progress reporter got from GetStats has suspicious <= processed.
C12_StatsOrdered ==
    /\ stats.SuspiciousURLs <= stats.ProcessedURLs
    /\ stats.ProcessedURLs <= stats.TotalURLs
    /\ progress.seen # << >> => progress.seen[1] <= progress.seen[3]

\* C12 witness: between two flushes: a tick has flushed one suspicious URL,
\* the progress reporter has read it with GetStats, and the worker holds
\* counts it has not flushed yet.
C12_Witness ==
    /\ pu.pc = "collect" /\ ctx = "live"
    /\ stats.SuspiciousURLs = 1
    /\ progress.seen # << >> /\ progress.seen[1] = 1
    /\ \E w \in DOMAIN wk : wk[w].pc = "select" /\ wk[w].local.processed > 0

\* every worker of the run has exited
AllWorkersExited == wk # << >> /\ \A w \in DOMAIN wk : wk[w].pc = "done"

\* the URLs the workers have taken from urlChan: those sent and no longer queued
Received == SubSeq(pu.urls, 1, producer.next - 1 - Len(urlChan.buf))

\* u went through the gate of the run and the classifier found nothing
ValidButClean(u) == Admitted(u) /\ ~isSuspicious(checker, u).suspicious

\* C13 as stated: once all workers have exited, ProcessedURLs equals
\* SuspiciousURLs plus the number of URLs that were valid but clean.
C13_ProcessedIsSuspiciousPlusClean ==
    AllWorkersExited =>
        stats.ProcessedURLs = stats.SuspiciousURLs + Count(Received, ValidButClean)

\* What the workers keep instead: ProcessedURLs also counts every URL that
\* failed validation.
C13_ProcessedCountsInvalid ==
    AllWorkersExited =>
        /\ stats.ProcessedURLs =
             stats.SuspiciousURLs + Count(Received, ValidButClean) + stats.InvalidURLs
        /\ stats.InvalidURLs =
             Count(Received, LAMBDA u : ~Blank(u) /\ cfg.validateURLs /\ ~isValidURL(u))

\* C14 as stated: with a timeout of 0 the context main builds never
\* expires, and processFile runs to the end of the input without error.
C14_ZeroTimeoutNeverExpires ==
    (cfg.timeout = "0" /\ pf.pc # "main") =>
        /\ ctx # "deadline"
        /\ pf.pc = "returned" => (pf.err = "nil" /\ out.done)

\* The entry point src/cmd/juicyurls/main.go alone: a timeout of 0 gives a
\* live context without a deadline.
C14_CmdEntryOnly ==
    (call.op = "buildContext" /\ call.returned
        /\ call.arg = <<"src/cmd/juicyurls/main.go", "0">>) =>
        (call.ret.ctx = "live" /\ ~call.ret.hasDeadline)

\* C15 as stated: whatever the phase in which the deadline passes,
\* processFile does not return an error because of it, and main does not
\* end in log.Fatalf.
C15_TimeoutIsNoError ==
    (pf.pc = "returned" /\ ctx = "deadline") =>
        /\ pf.err # "DeadlineExceeded"
        /\ ~MainFatal

\* Where the error comes from: the look at the context while a small file
\* is loaded, and the look at the context after a full chunk of a large
\* file; a deadline that passes in the last call of processURLs is let through.
C15_ErrorOnlyAtLoadOrAfterChunk ==
    (pf.pc = "returned" /\ ctx = "deadline" /\ pf.err # "nil") =>
        \/ pf.mode = "file" /\ pu.pc = "idle"
        \/ pf.mode = "large" /\ pf.lineIdx <= Len(file.lines) + 1 /\ pf.urls = << >>

\* C16 as stated: when the caller cancels the context, processFile stops
\* early as it does on a timeout: it returns nil and the results emitted
\* so far have been deduplicated and written.
C16_AbortIsGraceful ==
    (pf.pc = "returned" /\ ctx = "canceled" /\ pu.pc = "returned") =>
        /\ pf.err = "nil"
        /\ out.done
        /\ WrittenFrom(out.written, emitted)

\* C17 as stated: once the collector has drained the closed results queue,
\* processURLs can return although the context is neither cancelled nor
\* timed out, in verbose mode as well.
C17_ReturnsWithoutCancel ==
    (pu.pc = "wait" /\ ctx = "live") => ENABLED ReturnprocessURLs

\* What verbose mode does instead: processURLs has never returned from a
\* non-empty input while the context was live.
C17_VerboseReturnsOnlyAfterCancel ==
    (cfg.verbose /\ pu.pc = "returned" /\ pu.urls # << >>) => ctx # "live"

\* C18: once the context is done, the producer, every worker, the closer
\* and the collector of a running processURLs exit and processURLs
\* returns; a worker that waits to push onto a full results channel and a
\* producer that waits to send onto a full URL channel can leave by their
\* case <-ctx.Done().
C18_CancelTerminates ==
    /\ (ctx # "live" /\ pu.pc \in {"collect", "wait"}) ~>
         (/\ pu.pc = "returned"
          /\ producer.pc = "done"
          /\ closer = "done"
          /\ \A w \in DOMAIN wk : wk[w].pc = "done")
    /\ [](\A w \in DOMAIN wk :
            (wk[w].pc = "push" /\ Len(resultsChan.buf) = resultsChan.cap /\ ctx # "live")
                => ENABLED WorkerPushCtxDone(w))
    /\ []((producer.pc = "send" /\ producer.next <= Len(pu.urls)
             /\ Len(urlChan.buf) = urlChan.cap /\ ctx # "live")
                => ENABLED ProducerCtxDone)

\* C18 witness: the deadline has passed while a worker waits to push onto
\* the full results channel and the producer waits to send onto the full
\* URL channel.
C18_Witness ==
    /\ ctx = "deadline"
    /\ pu.pc = "collect"
    /\ \E w \in DOMAIN wk : wk[w].pc = "push"
    /\ Len(resultsChan.buf) = resultsChan.cap
    /\ producer.pc = "send" /\ producer.next <= Len(pu.urls)
    /\ Len(urlChan.buf) = urlChan.cap

\* C19 as stated: once the context is done, no URL leaves and no URL
\* enters the URL channel: no worker takes a further URL, the producer
\* sends none.
C19_NothingAcceptedAfterCancel ==
    [][ctx # "live" => urlChan'.buf = urlChan.buf]_vars

\* What the selects guarantee instead: after the context is done a worker
\* or the producer may still choose the URL channel, but a worker that has
\* exited takes nothing and a producer that has exited sends nothing.
C19_NothingAcceptedAfterExit ==
    [][(producer.pc = "done" /\ \A w \in DOMAIN wk : wk[w].pc = "done")
         => (pu'.pc = "collect" => urlChan'.buf = urlChan.buf)]_vars

\* what a worker does with a URL it has received, by the code of worker
FateOf(validate, c, u) ==
    IF Blank(u) THEN "skipped"
    ELSE IF validate /\ ~isValidURL(u) THEN "invalid"
    ELSE IF isSuspicious(c, u).suspicious THEN "suspicious"
    ELSE "clean"

\* the URLs of the pipeline runs, and their fate for every setting of
\* validation and of the four category flags, worked out once
KnownURLs ==
    Range(URLs_Test) \cup Range(URLs_Mixed) \cup Range(URLs_Cats) \cup Range(URLs_Ten)
        \cup Range(URLs_Gate)
        \cup Range(URLs_Eight) \cup Range(URLsOf(Lines_Mixed)) \cup Range(URLsOf(Lines_Short))

\* the fates of the URLs in S, as an explicit table
RECURSIVE FateRow(_, _, _)
FateRow(validate, c, S) ==
    IF S = {} THEN << >>
    ELSE LET u == CHOOSE x \in S : TRUE
         IN  (u :> FateOf(validate, c, u)) @@ FateRow(validate, c, S \ {u})

RECURSIVE FateRows(_)
FateRows(F) ==
    IF F = {} THEN << >>
    ELSE LET f == CHOOSE x \in F : TRUE
         IN  (f :> FateRow(f[1], URLChecker(f[2], f[3], f[4], f[5], << >>), KnownURLs))
                 @@ FateRows(F \ {f})

KnownFate == FateRows(BOOLEAN \X BOOLEAN \X BOOLEAN \X BOOLEAN \X BOOLEAN)

Fate(u) ==
    IF u \in KnownURLs /\ checker.excludePatterns = << >>
    THEN KnownFate[<<cfg.validateURLs, checker.checkKeywords, checker.checkExtensions,
                     checker.checkPaths, checker.checkHidden>>][u]
    ELSE FateOf(cfg.validateURLs, checker, u)

RECURSIVE SumOver(_, _)
\* the sum of f[w] over the workers in ws
SumOver(f, ws) ==
    IF ws = {} THEN 0
    ELSE LET w == CHOOSE v \in ws : TRUE IN f[w] + SumOver(f, ws \ {w})

\* the part of counter c that the workers still running have not flushed
Unflushed(c) ==
    SumOver([w \in DOMAIN wk |-> wk[w].local[c]], { w \in DOMAIN wk : wk[w].pc # "done" })

\* the shared counters are the increments made for the URLs received
CountersExact ==
    LET fate    == [i \in DOMAIN Received |-> Fate(Received[i])]
        skipped == Cardinality({ i \in DOMAIN fate : fate[i] = "skipped" })
        invalid == Cardinality({ i \in DOMAIN fate : fate[i] = "invalid" })
        clean   == Cardinality({ i \in DOMAIN fate : fate[i] = "clean" })
    IN  /\ stats.SkippedURLs = skipped
        /\ stats.InvalidURLs = invalid
        /\ stats.SuspiciousURLs = Len(emitted)
        /\ stats.ProcessedURLs = invalid + clean + Len(emitted)

\* C20: every push is counted once: in every state SuspiciousURLs plus the
\* unflushed deltas of the running workers is the number of results
\* pushed; and once all workers have exited each shared counter is the
\* number of increments made for the URLs received: nothing is lost at an
\* exit, nothing is counted twice by a tick.
C20_FlushedExactlyOnce ==
    /\ stats.SuspiciousURLs + Unflushed("suspicious") = Len(emitted)
    /\ AllWorkersExited => CountersExact

\* C20 witness: two workers have exited after the deadline, one of them
\* from the inner select, a tick has flushed before, and the counters hold
\* a pushed result and an invalid URL.
C20_Witness ==
    /\ AllWorkersExited /\ Len(wk) = 2
    /\ ctx = "deadline" /\ ticks = 1
    /\ stats.SuspiciousURLs = 1 /\ stats.InvalidURLs = 1
    /\ Len(emitted) = 1
    /\ Cardinality({ i \in DOMAIN Received : Fate(Received[i]) = "suspicious" }) = 2

\* C21: when processURLs has returned, after a complete run or after the
\* context was done, the returned list has as many results as the
\* SuspiciousURLs counter of the returned Stats says, and they are the
\* results the workers pushed, in the order of the pushes.
C21_ResultsMatchCounter ==
    pu.pc = "returned" =>
        /\ Len(pu.results) = stats.SuspiciousURLs
        /\ pu.results = emitted

\* a run cut short by the deadline returns one result while a second
\* suspicious URL had been received and was abandoned at the push
C21_Witness ==
    /\ pu.pc = "returned" /\ pu.err = "DeadlineExceeded"
    /\ Len(pu.results) = 1 /\ stats.SuspiciousURLs = 1
    /\ Cardinality({ i \in DOMAIN Received : Fate(Received[i]) = "suspicious" }) = 2

\* C22: resultsChan is closed only when every worker has exited and is
\* closed once; urlChan is closed only by the producer, as its last step,
\* and once; nothing is sent on a closed channel and no closed channel is
\* closed again; the collector leaves its loop only when resultsChan has
\* been closed.
C22_ChannelsClosedOnce ==
    /\ resultsChan.closed =>
           /\ AllWorkersExited
           /\ closer = "done"
           /\ ~ENABLED CloserClose
           /\ \A w \in DOMAIN wk : ~ENABLED WorkerPush(w)
    /\ urlChan.closed =>
           /\ producer.pc = "done"
           /\ ~ENABLED ProducerSend
           /\ ~ENABLED ProducerCtxDone
           /\ ~ENABLED ProducerFinish
    /\ (producer.pc = "done") => urlChan.closed
    /\ (pu.pc \in {"wait", "returned"} /\ pu.urls # << >>) => resultsChan.closed

\* a run of two workers has returned results with both channels closed,
\* one worker having left at the push when the deadline passed
C22_Witness ==
    /\ pu.pc = "returned" /\ Len(wk) = 2
    /\ resultsChan.closed /\ urlChan.closed
    /\ ctx = "deadline" /\ Len(pu.results) = 1
    /\ Len(pu.results) < Cardinality({ i \in DOMAIN Received : Fate(Received[i]) = "suspicious" })

\* C23: with N the effective worker count of the call, urlChan never holds
\* more than 4*N URLs and resultsChan never more than 2*N results; while
\* urlChan is full the producer's send is not enabled, so that nothing is
\* enqueued until a worker has taken a URL (a done context lets the
\* producer leave instead).
C23_QueuesBounded ==
    LET N == pu.numWorkers
    IN  /\ pu.urls # << >> => N = NumWorkers(cfg.workers, Len(pu.urls))
        /\ Len(urlChan.buf) <= 4 * N
        /\ Len(resultsChan.buf) <= 2 * N
        /\ Len(urlChan.buf) = 4 * N => ~ENABLED ProducerSend
        /\ (Len(urlChan.buf) = 4 * N /\ producer.pc = "send" /\ ctx # "live"
               /\ producer.next <= Len(pu.urls)) => ENABLED ProducerCtxDone

\* two workers, urlChan full with eight URLs and the producer holding more,
\* resultsChan holding results as well
C23_Witness ==
    /\ pu.numWorkers = 2 /\ ctx = "live"
    /\ Len(urlChan.buf) = 8
    /\ producer.pc = "send" /\ producer.next <= Len(pu.urls)
    /\ resultsChan.buf # << >>

\* the URLs received so far that fail the validation of the run
InvalidReceived == { i \in DOMAIN Received : Fate(Received[i]) = "invalid" }

\* C24: with validation on, a URL that fails isValidURL never reaches the
\* pattern matcher (the checker's patterns are compiled only by a call of
\* isSuspicious for a URL that passed), no result exists for it anywhere, it
\* is counted as invalid and as nothing else, and the worker goes on: a
\* worker leaves only on a done context or on the closed and drained
\* urlChan, and a run whose context stays live receives every URL.
C24_ValidationGate ==
    /\ \A r \in ResultsAnywhere : Fate(r.URL) = "suspicious"
    /\ checker.compiledOnce =>
           \E i \in DOMAIN Received : Fate(Received[i]) \in {"suspicious", "clean"}
    /\ stats.InvalidURLs + Unflushed("invalid") = Cardinality(InvalidReceived)
    /\ Len(emitted) + Cardinality({ w \in DOMAIN wk : wk[w].pc = "push" })
           <= Cardinality(DOMAIN Received \ InvalidReceived)
    /\ \A w \in DOMAIN wk :
           wk[w].pc = "done" => ctx # "live" \/ (urlChan.closed /\ urlChan.buf = << >>)
    /\ ReturnedUncancelled => Len(Received) = Len(pu.urls)

\* validation is on and the worker has taken two URLs that fail it, both of
\* which a pattern matches: they are counted as invalid, nothing is pushed,
\* the patterns are still not compiled and the worker is back at its select
C24_Witness ==
    /\ cfg.validateURLs /\ ctx = "live"
    /\ Received = <<U_bareKw, U_segColon>>
    /\ isSuspicious(AllOn, U_bareKw).suspicious
    /\ isSuspicious(AllOn, U_segColon).suspicious
    /\ ~checker.compiledOnce /\ emitted = << >>
    /\ wk[1].pc = "select" /\ wk[1].local.invalid = 2

\* the lines of the file that the scanner loops skip
SkippedLines == { i \in DOMAIN file.lines : SkippedLine(TrimSpace(file.lines[i])) }

\* processFile or processLargeFile has read the whole file and returned nil
FileRunComplete ==
    /\ pf.mode \in {"file", "large"}
    /\ pf.pc = "returned" /\ pf.err = "nil" /\ ctx = "live"

\* C25: every blank line and every line starting with "#" or "//" is
\* counted in the skipped statistic: after a complete run the Stats that
\* processFile prints has SkippedURLs equal to the number of such lines.
C25_SkippedLinesCounted ==
    FileRunComplete => pf.totalStats.SkippedURLs = Cardinality(SkippedLines)

\* What the code does: the skipped lines are never handed to processURLs,
\* and no counter counts them: SkippedURLs stays 0 in every Stats of a run.
C25_SkippedNeverDispatchedNorCounted ==
    /\ \A i \in DOMAIN pu.urls : ~SkippedLine(pu.urls[i])
    /\ \A i \in DOMAIN urlChan.buf : ~SkippedLine(urlChan.buf[i])
    /\ stats.SkippedURLs = 0 /\ pf.totalStats.SkippedURLs = 0
    /\ \A w \in DOMAIN wk : wk[w].local.skipped = 0

\* C26: total counts the lines seen before filtering: after a complete run
\* TotalURLs of the Stats that processFile prints is the number of lines of
\* the file, blank and comment lines included.
C26_TotalCountsAllLines ==
    FileRunComplete => pf.totalStats.TotalURLs = Len(file.lines)

\* What the code does: TotalURLs is the number of lines left after the
\* blank and comment lines have been filtered out.
C26_TotalCountsFilteredLines ==
    FileRunComplete =>
        pf.totalStats.TotalURLs = Len(file.lines) - Cardinality(SkippedLines)

\* C27: a URL longer than maxURLLength is never matched: neither
\* isSuspicious of src/main.go nor IsSuspicious of internal/checker reports
\* it suspicious.
C27_OverlongNeverMatched ==
    (ClassifierCall /\ Len(call.arg) > maxURLLength) => ~call.ret.suspicious

\* C27, for isSuspicious of src/main.go alone, where it holds: an overlong
\* URL is answered with the empty triple and the patterns are not touched.
C27_MainVariantOnly ==
    (call.op = "isSuspicious" /\ call.returned /\ Len(call.arg) > maxURLLength) =>
        /\ call.ret = NotSuspicious
        /\ ~checker.compiledOnce

\* the checker as it was built, nothing compiled
Uncompiled(c) ==
    URLChecker(c.checkKeywords, c.checkExtensions, c.checkPaths, c.checkHidden,
               c.excludePatterns)

\* C28: with several workers calling isSuspicious on one checker, the first
\* calls included, the body of compileRegexes is run by one worker at a
\* time and once (the compiled checker is the outcome of a single
\* compilation, no list appended to twice), a worker matches only against
\* the completely compiled checker, and once done is set no call changes
\* the checker.
C28_CompiledExactlyOnce ==
    /\ [](/\ Cardinality({ w \in DOMAIN wk : wk[w].pc \in HolderPcs }) <= 1
          /\ checker.compiledOnce => checker = compileRegexes(Uncompiled(checker))
          /\ \A w \in DOMAIN wk :
                 /\ wk[w].pc \in {"match", "push"} => checker.compiledOnce
                 /\ wk[w].pc \in BodyPcSet \cup {"bodyEnd"} => ~checker.compiledOnce)
    /\ [][checker.compiledOnce => checker' = checker]_vars

\* one worker is in the body of compileRegexes, some lists compiled and
\* others not, while the other worker waits for the mutex
C28_Witness ==
    /\ Len(wk) = 2
    /\ \E w \in DOMAIN wk, v \in DOMAIN wk :
           /\ wk[w].pc = "bodyPaths" /\ wk[v].pc = "doSlow"
    /\ checker.keywordRegexes # << >> /\ checker.hiddenRegexes = << >>
    /\ ~checker.compiledOnce

\* the literals of a list of compiled patterns, in order
Literals(regexes) == [k \in DOMAIN regexes |-> regexes[k].lit]

\* the checker built with the patterns that compile, the others left out
WithoutBadPatterns(c) ==
    URLChecker(c.checkKeywords, c.checkExtensions, c.checkPaths, c.checkHidden,
               SelectSeq(c.excludePatterns, CompileOK))

\* C29: a pattern that fails to compile is left out and nothing else is:
\* after compilation the exclusion regexes are those of the patterns that
\* compile, in their order, every enabled category has all its patterns,
\* the call returns as usual, and the classifier answers as if the failing
\* pattern had never been given.
C29_OnlyBadPatternSkipped ==
    (ClassifierCall /\ checker.compiledOnce) =>
        /\ Literals(checker.excludeRegexes) = SelectSeq(checker.excludePatterns, CompileOK)
        /\ Literals(checker.keywordRegexes) = (IF checker.checkKeywords THEN Keywords ELSE << >>)
        /\ Literals(checker.extensionRegexes) =
               (IF checker.checkExtensions THEN Extensions ELSE << >>)
        /\ Literals(checker.pathRegexes) = (IF checker.checkPaths THEN Paths ELSE << >>)
        /\ Literals(checker.hiddenRegexes) = (IF checker.checkHidden THEN Hidden ELSE << >>)
        /\ call.ret = (IF call.op = "isSuspicious"
                       THEN isSuspicious(WithoutBadPatterns(checker), call.arg)
                       ELSE IsSuspicious(compileRegexes(WithoutBadPatterns(checker)),
                                         call.arg))

\* the first exclusion does not compile, the second excludes a URL that a
\* keyword matches
C29_Witness ==
    /\ ClassifierCall /\ checker.compiledOnce
    /\ Len(checker.excludePatterns) = 2 /\ ~CompileOK(checker.excludePatterns[1])
    /\ Len(checker.excludeRegexes) = 1
    /\ checker.checkKeywords /\ call.arg = U_safeBad
    /\ call.ret = NotSuspicious

\* the URLs of a sequence of results
ResultURLs(rs) == [k \in DOMAIN rs |-> rs[k].URL]

\* position of the first occurrence of u in the sequence us
FirstPos(us, u) == CHOOSE j \in DOMAIN us : us[j] = u /\ \A k \in 1..(j - 1) : us[k] # u

\* ds lists, without repetition, the elements of us in the order of their
\* first occurrences in us
InOrderOfFirstOccurrence(ds, us) ==
    /\ Range(ds) \subseteq Range(us)
    /\ \A i \in DOMAIN ds : \A j \in DOMAIN ds :
           i < j => FirstPos(us, ds[i]) < FirstPos(us, ds[j])

\* C30, as claimed: after a run of processFile the deduplicated result
\* list has the suspicious URLs in the order of their first occurrence in
\* the input file, whatever the worker count and the interleaving.
C30_InputOrder ==
    (pf.mode \in {"file", "large"} /\ pf.pc = "returned" /\ pf.err = "nil") =>
        InOrderOfFirstOccurrence(ResultURLs(pf.allResults), URLsOf(file.lines))

\* C30, amended: the deduplicated result list has each collected URL once,
\* in the order in which the results first arrived on resultsChan; with one
\* worker that is the order of the first occurrences in the input file.
C30_ArrivalOrder ==
    (pf.mode = "file" /\ pf.pc = "returned" /\ pf.err = "nil") =>
        LET ds == ResultURLs(pf.allResults)
        IN  /\ Range(ds) = Range(ResultURLs(emitted))
            /\ InOrderOfFirstOccurrence(ds, ResultURLs(emitted))
            /\ pu.numWorkers = 1 => InOrderOfFirstOccurrence(ds, URLsOf(file.lines))

\* two workers: the result of the second line arrived before the one of the
\* first, and the list processFile obtains has them in that order
C30_Witness ==
    /\ pf.mode = "file" /\ pf.pc = "returned" /\ pf.err = "nil"
    /\ pu.numWorkers = 2 /\ file.lines = Lines_Order
    /\ ResultURLs(emitted) = <<U_ext, U_keyword, U_keyword>>
    /\ ResultURLs(pf.allResults) = <<U_ext, U_keyword>>

\* the results for the reportable URLs of us, in the order of us
RECURSIVE ReportableResults(_)
ReportableResults(us) ==
    IF us = << >> THEN << >>
    ELSE LET u == Head(us)
             r == isSuspicious(checker, u)
         IN  (IF Reportable(u) THEN <<Result(u, r.category, r.reason)>> ELSE << >>)
                 \o ReportableResults(Tail(us))

\* C31: what processFile writes is strictly ascending by URL (sorted, no
\* URL twice) in every run; after an uncancelled run it is the one ascending
\* sequence of the results of the file's reportable URLs, the same for
\* every worker count and interleaving.
C31_WrittenAscending ==
    /\ SortedDistinct(out.written)
    /\ FileRunComplete =>
           LET expected == ReportableResults(URLsOf(file.lines))
           IN  /\ out.done
               /\ Range(out.written) = Range(expected)
               /\ Len(out.written) = Cardinality(Range(expected))

\* two workers: the results arrived in descending order of URL, one URL
\* twice, and are written ascending, each once
C31_Witness ==
    /\ FileRunComplete /\ pu.numWorkers = 2
    /\ ResultURLs(emitted) = <<U_ext, U_keyword, U_keyword>>
    /\ ResultURLs(out.written) = <<U_keyword, U_ext>>
    /\ StringLess(U_keyword, U_ext)

\* C32: a processURLs that returns a nil error has consumed and counted
\* every input URL: in the returned Stats ProcessedURLs + SkippedURLs is
\* TotalURLs, which is the length of the input, and urlChan is empty; the
\* sum never exceeds the total, and a returned Stats whose sum falls short
\* of the total comes with a non-nil error.
C32_NilErrorMeansAllCounted ==
    /\ stats.ProcessedURLs + stats.SkippedURLs <= stats.TotalURLs
    /\ (pu.pc = "returned" /\ pu.err = "nil") =>
           /\ stats.TotalURLs = Len(pu.urls)
           /\ stats.ProcessedURLs + stats.SkippedURLs = stats.TotalURLs
           /\ urlChan.buf = << >>
           /\ producer.next > Len(pu.urls)
    /\ (pu.pc = "returned" /\ stats.ProcessedURLs + stats.SkippedURLs < stats.TotalURLs) =>
           pu.err \in {"DeadlineExceeded", "Canceled"}

\* a run returned nil with a blank URL skipped and the others processed, a
\* flush by the ticker on the way
C32_Witness ==
    /\ pu.pc = "returned" /\ pu.err = "nil" /\ pu.urls = URLs_Mixed
    /\ stats.SkippedURLs = 1 /\ stats.ProcessedURLs = 4 /\ stats.TotalURLs = 5
    /\ ticks = 1

\* a run cut short: the sum falls short of the total and the error is the deadline
C32_ShortfallReached ==
    /\ pu.pc = "returned" /\ pu.err = "DeadlineExceeded"
    /\ stats.ProcessedURLs + stats.SkippedURLs < stats.TotalURLs

\* the received URLs that a worker found suspicious
SuspiciousReceived == { i \in DOMAIN Received : Fate(Received[i]) = "suspicious" }

\* C33: when a worker leaves from the push because the context is done, the
\* step emits nothing, puts nothing on resultsChan, adds to the shared Stats
\* exactly the delta the worker held before (nothing for the URL given up),
\* and the worker is done; so once all workers have exited the suspicious
\* URLs received and not pushed are missing from the suspicious counter and
\* from the processed counter alike.
C33_AbandonedPushLeavesNoTrace ==
    /\ [][\A w \in DOMAIN wk :
            (wk[w].pc = "push" /\ w \in DOMAIN wk' /\ wk'[w].pc = "done") =>
                /\ ctx # "live"
                /\ emitted' = emitted
                /\ resultsChan' = resultsChan
                /\ pu' = pu /\ out' = out
                /\ stats' = UpdateStats(stats, wk[w].local)]_vars
    /\ [](AllWorkersExited =>
            /\ stats.SuspiciousURLs = Len(emitted)
            /\ stats.ProcessedURLs + stats.SkippedURLs
                   + (Cardinality(SuspiciousReceived) - Len(emitted)) = Len(Received))

\* two invalid URLs were counted, then the worker took a suspicious URL and
\* gave it up at the push when the deadline passed
C33_Witness ==
    /\ AllWorkersExited /\ ctx = "deadline"
    /\ pu.urls = URLs_Gate /\ Len(Received) = 3
    /\ emitted = << >> /\ resultsChan.buf = << >>
    /\ stats.SuspiciousURLs = 0 /\ stats.ProcessedURLs = 2 /\ stats.InvalidURLs = 2

(***************************************************************************)
(* The streaming pipeline: processor.ProcessFile feeding                   *)
(* writer.WriteStream.  The reader, the two closers, the workers and the   *)
(* writer are goroutines; total, processed and suspicious are atomics,     *)
(* held here in the TotalURLs, ProcessedURLs and SuspiciousURLs fields of  *)
(* stats, and every atomic.AddUint64 is a step of its own.                 *)
(***************************************************************************)
urlChanPerWorker == 100
resultsChanPerWorker == 10

\* workers := cfg.Workers; if workers <= 0 { workers = runtime.NumCPU() }
StreamWorkers(configured) == IF configured <= 0 THEN NumCPU ELSE configured

\* the reader's test: line == "" || line[0] == '#' || line[0] == '/'
readerSkips(line) == line = << >> \/ line[1] = "#" \/ line[1] = "/"

\* ProcessFile up to the call of WriteStream: channels, atomics, goroutines
StreamStart ==
    /\ pf.mode = "stream" /\ pf.pc = "start"
    /\ LET workers == StreamWorkers(cfg.workers)
       IN  /\ urlChan' = NewChan(workers * urlChanPerWorker)
           /\ resultsChan' = NewChan(workers * resultsChanPerWorker)
           /\ wk' = [w \in 1..workers |-> NewWorker]
    /\ stats' = NewStats(0)
    /\ producer' = [pc |-> "scan", next |-> 1]
    /\ closer' = "wait"
    /\ pf' = [pf EXCEPT !.pc = "write"]
    /\ UNCHANGED <<call, checker, cfg, ctx, file, pu, progress, ticks, emitted, out>>

\* Mutant: the reader does not count the line it is about to send.
ReaderScanUncounted ==
    /\ pf.mode = "stream" /\ producer.pc = "scan"
    /\ producer.next <= Len(file.lines)
    /\ IF readerSkips(file.lines[producer.next])
       THEN producer' = [producer EXCEPT !.next = @ + 1]
       ELSE producer' = [producer EXCEPT !.pc = "send"]
    /\ UNCHANGED <<call, checker, cfg, ctx, file, pf, pu, stats, urlChan, resultsChan, wk,
                   closer, progress, ticks, emitted, out>>

\* the reader: scanner.Scan() gave a line; it is skipped, or counted in
\* total before the select that sends it
ReaderScan ==
    /\ pf.mode = "stream" /\ producer.pc = "scan"
    /\ producer.next <= Len(file.lines)
    /\ IF readerSkips(file.lines[producer.next])
       THEN /\ producer' = [producer EXCEPT !.next = @ + 1]
            /\ stats' = stats
       ELSE /\ producer' = [producer EXCEPT !.pc = "send"]
            /\ stats' = [stats EXCEPT !.TotalURLs = @ + 1]
    /\ UNCHANGED <<call, checker, cfg, ctx, file, pf, pu, urlChan, resultsChan, wk,
                   closer, progress, ticks, emitted, out>>

\* the reader's select: case urlChan <- line
ReaderSend ==
    /\ pf.mode = "stream" /\ producer.pc = "send"
    /\ Len(urlChan.buf) < urlChan.cap
    /\ urlChan' = [urlChan EXCEPT !.buf = Append(@, file.lines[producer.next])]
    /\ producer' = [producer EXCEPT !.pc = "scan", !.next = @ + 1]
    /\ UNCHANGED <<call, checker, cfg, ctx, file, pf, pu, stats, resultsChan, wk,
                   closer, progress, ticks, emitted, out>>

\* the reader's select: case <-ctx.Done(): return
ReaderCtxDone ==
    /\ pf.mode = "stream" /\ producer.pc = "send"
    /\ ctx # "live"
    /\ producer' = [producer EXCEPT !.pc = "exited"]
    /\ UNCHANGED <<call, checker, cfg, ctx, file, pf, pu, stats, urlChan, resultsChan, wk,
                   closer, progress, ticks, emitted, out>>

\* scanner.Scan() is false at the end of the file: the reader returns
ReaderEOF ==
    /\ pf.mode = "stream" /\ producer.pc = "scan"
    /\ producer.next > Len(file.lines)
    /\ producer' = [producer EXCEPT !.pc = "exited"]
    /\ UNCHANGED <<call, checker, cfg, ctx, file, pf, pu, stats, urlChan, resultsChan, wk,
                   closer, progress, ticks, emitted, out>>

\* readerWG.Wait(); close(urlChan)
StreamCloseURLs ==
    /\ pf.mode = "stream" /\ producer.pc = "exited"
    /\ urlChan' = [urlChan EXCEPT !.closed = TRUE]
    /\ producer' = [producer EXCEPT !.pc = "done"]
    /\ UNCHANGED <<call, checker, cfg, ctx, file, pf, pu, stats, resultsChan, wk,
                   closer, progress, ticks, emitted, out>>

\* the worker's select: case <-ctx.Done(): return
StreamCtxDone(w) ==
    /\ pf.mode = "stream" /\ wk[w].pc = "select"
    /\ ctx # "live"
    /\ wk' = [wk EXCEPT ![w].pc = "done"]
    /\ UNCHANGED <<call, checker, cfg, ctx, file, pf, pu, stats, urlChan, resultsChan,
                   producer, closer, progress, ticks, emitted, out>>

\* the worker's select: case u, ok := <-urlChan with ok
StreamRecv(w) ==
    /\ pf.mode = "stream" /\ wk[w].pc = "select"
    /\ urlChan.buf # << >>
    /\ urlChan' = [urlChan EXCEPT !.buf = Tail(@)]
    /\ wk' = [wk EXCEPT ![w].pc = "count", ![w].pending = Result(Head(urlChan.buf), "", "")]
    /\ UNCHANGED <<call, checker, cfg, ctx, file, pf, pu, stats, resultsChan, producer,
                   closer, progress, ticks, emitted, out>>

\* the worker's select: case u, ok := <-urlChan with !ok
StreamClosed(w) ==
    /\ pf.mode = "stream" /\ wk[w].pc = "select"
    /\ urlChan.buf = << >> /\ urlChan.closed
    /\ wk' = [wk EXCEPT ![w].pc = "done"]
    /\ UNCHANGED <<call, checker, cfg, ctx, file, pf, pu, stats, urlChan, resultsChan,
                   producer, closer, progress, ticks, emitted, out>>

\* atomic.AddUint64(&processed, 1), then the validation and the classifier
StreamCount(w) ==
    /\ pf.mode = "stream" /\ wk[w].pc = "count"
    /\ stats' = [stats EXCEPT !.ProcessedURLs = @ + 1]
    /\ LET u == wk[w].pending.URL
           r == IsSuspicious(checker, u)
       IN  IF (cfg.validateURLs /\ ~IsValidURL(u)) \/ ~r.suspicious
           THEN wk' = [wk EXCEPT ![w].pc = "select", ![w].pending = NoResult]
           ELSE wk' = [wk EXCEPT ![w].pc = "mark",
                                 ![w].pending = Result(u, r.category, r.reason)]
    /\ UNCHANGED <<call, checker, cfg, ctx, file, pf, pu, urlChan, resultsChan,
                   producer, closer, progress, ticks, emitted, out>>

\* atomic.AddUint64(&suspicious, 1), before the select that pushes
StreamMark(w) ==
    /\ pf.mode = "stream" /\ wk[w].pc = "mark"
    /\ stats' = [stats EXCEPT !.SuspiciousURLs = @ + 1]
    /\ wk' = [wk EXCEPT ![w].pc = "push"]
    /\ UNCHANGED <<call, checker, cfg, ctx, file, pf, pu, urlChan, resultsChan,
                   producer, closer, progress, ticks, emitted, out>>

\* the worker's second select: case resultsChan <- types.Result{...}
StreamPush(w) ==
    /\ pf.mode = "stream" /\ wk[w].pc = "push"
    /\ Len(resultsChan.buf) < resultsChan.cap
    /\ resultsChan' = [resultsChan EXCEPT !.buf = Append(@, wk[w].pending)]
    /\ emitted' = Append(emitted, wk[w].pending)
    /\ wk' = [wk EXCEPT ![w].pc = "select", ![w].pending = NoResult]
    /\ UNCHANGED <<call, checker, cfg, ctx, file, pf, pu, stats, urlChan, producer,
                   closer, progress, ticks, out>>

\* the worker's second select: case <-ctx.Done(): return
StreamPushCtxDone(w) ==
    /\ pf.mode = "stream" /\ wk[w].pc = "push"
    /\ ctx # "live"
    /\ wk' = [wk EXCEPT ![w].pc = "done", ![w].pending = NoResult]
    /\ UNCHANGED <<call, checker, cfg, ctx, file, pf, pu, stats, urlChan, resultsChan,
                   producer, closer, progress, ticks, emitted, out>>

\* workerWG.Wait(); close(resultsChan)
StreamCloseResults ==
    /\ pf.mode = "stream" /\ closer = "wait"
    /\ \A w \in DOMAIN wk : wk[w].pc = "done"
    /\ resultsChan' = [resultsChan EXCEPT !.closed = TRUE]
    /\ closer' = "closed"
    /\ UNCHANGED <<call, checker, cfg, ctx, file, pf, pu, stats, urlChan, wk, producer,
                   progress, ticks, emitted, out>>

\* WriteStream's select: case r, ok := <-in with ok; the result is written
WriterRecv ==
    /\ pf.mode = "stream" /\ pf.pc = "write"
    /\ resultsChan.buf # << >>
    /\ resultsChan' = [resultsChan EXCEPT !.buf = Tail(@)]
    /\ out' = [out EXCEPT !.written = Append(@, Head(resultsChan.buf))]
    /\ UNCHANGED <<call, checker, cfg, ctx, file, pf, pu, stats, urlChan, wk, producer,
                   closer, progress, ticks, emitted>>

\* WriteStream's select: case r, ok := <-in with !ok: return nil
WriterClosed ==
    /\ pf.mode = "stream" /\ pf.pc = "write"
    /\ resultsChan.buf = << >> /\ resultsChan.closed
    /\ pf' = [pf EXCEPT !.pc = "written", !.err = "nil"]
    /\ out' = [out EXCEPT !.done = TRUE]
    /\ UNCHANGED <<call, checker, cfg, ctx, file, pu, stats, urlChan, resultsChan, wk,
                   producer, closer, progress, ticks, emitted>>

\* WriteStream's select: case <-ctx.Done(): return ctx.Err()
WriterCtxDone ==
    /\ pf.mode = "stream" /\ pf.pc = "write"
    /\ ctx # "live"
    /\ pf' = [pf EXCEPT !.pc = "written", !.err = CtxErr(ctx)]
    /\ out' = [out EXCEPT !.done = TRUE]
    /\ UNCHANGED <<call, checker, cfg, ctx, file, pu, stats, urlChan, resultsChan, wk,
                   producer, closer, progress, ticks, emitted>>

\* ProcessFile after WriteStream: DeadlineExceeded becomes nil and ends the
\* call; otherwise the final statistics (total, processed, suspicious as
\* they are at this moment) are reported and err is returned
StreamReturn ==
    /\ pf.mode = "stream" /\ pf.pc = "written"
    /\ IF pf.err = "DeadlineExceeded"
       THEN pf' = [pf EXCEPT !.pc = "returned", !.err = "nil"]
       ELSE pf' = [pf EXCEPT !.pc = "returned", !.totalStats = stats]
    /\ UNCHANGED <<call, checker, cfg, ctx, file, pu, stats, urlChan, resultsChan, wk,
                   producer, closer, progress, ticks, emitted, out>>

NextStream ==
    \/ StreamStart
    \/ ReaderScan
    \/ ReaderSend
    \/ ReaderCtxDone
    \/ ReaderEOF
    \/ StreamCloseURLs
    \/ \E w \in DOMAIN wk : StreamCtxDone(w)
    \/ \E w \in DOMAIN wk : StreamRecv(w)
    \/ \E w \in DOMAIN wk : StreamClosed(w)
    \/ \E w \in DOMAIN wk : StreamCount(w)
    \/ \E w \in DOMAIN wk : StreamMark(w)
    \/ \E w \in DOMAIN wk : StreamPush(w)
    \/ \E w \in DOMAIN wk : StreamPushCtxDone(w)
    \/ StreamCloseResults
    \/ WriterRecv
    \/ WriterClosed
    \/ WriterCtxDone
    \/ StreamReturn
    \/ Timeout
    \/ Cancel

\* the lines of the input file: a suspicious URL on two lines, a comment,
\* a path starting with one slash, an empty line, a line holding one space
L_rootPath == Paths[1] \o <<"/", "p">>
L_space == <<" ">>
Lines_Stream == <<U_keyword, L_comment, L_rootPath, << >>, L_space, U_keyword, L_slashes>>

\* cmd/juicyurls: cfg.URLChecker = checker.NewURLChecker(categories, excludes)
InitStream ==
    \E workers \in {0, 1}, validate \in BOOLEAN :
        InitRun(Scenario(Lines_Stream, workers, validate, TRUE, NewURLChecker(<< >>, << >>)),
                Lines_Stream, "stream", "start", FALSE)

SpecStream == InitStream /\ [][NextStream]_vars

\* C34: in every reachable state of the streaming pipeline the atomic
\* counters satisfy suspicious <= processed <= total.
C34_CountersOrdered ==
    pf.mode = "stream" =>
        /\ stats.SuspiciousURLs <= stats.ProcessedURLs
        /\ stats.ProcessedURLs <= stats.TotalURLs

\* two workers are running and the three counters are equal and not zero:
\* every line counted has been received and classified suspicious, while a
\* result is still on its way to the writer
C34_Witness ==
    /\ pf.mode = "stream" /\ Len(wk) = 2
    /\ stats.TotalURLs = 1 /\ stats.ProcessedURLs = 1 /\ stats.SuspiciousURLs = 1
    /\ \E w \in DOMAIN wk : wk[w].pc = "push"

\* C35: in the streaming pipeline no URL is written to the output more than
\* once in a run, even when the same suspicious URL is on several lines.
C35_NoURLWrittenTwice ==
    pf.mode = "stream" =>
        \A i, j \in DOMAIN out.written :
            out.written[i].URL = out.written[j].URL => i = j

\* What the code does: WriteStream writes every result it receives, in the
\* order of arrival, so that the output followed by the results still
\* queued is the sequence of results pushed.
C35_EveryResultWritten ==
    pf.mode = "stream" => out.written \o resultsChan.buf = emitted

\* C36: whenever WriteStream returns nil, so that ProcessFile reports its
\* final statistics, the suspicious counter equals the number of results
\* written.
C36_SuspiciousEqualsWritten ==
    (pf.mode = "stream" /\ pf.pc = "written" /\ pf.err = "nil")
        => stats.SuspiciousURLs = Len(out.written)

\* What the code does: the suspicious counter is never below the number of
\* results written, and the two are equal when WriteStream returns nil on a
\* context that is still live.
C36_SuspiciousCoversWritten ==
    pf.mode = "stream" =>
        /\ Len(out.written) <= stats.SuspiciousURLs
        /\ (pf.pc = "written" /\ pf.err = "nil" /\ ctx = "live")
               => stats.SuspiciousURLs = Len(out.written)

\* the line is blank or starts with "#" or "//"
CommentOrBlank(line) ==
    \/ TrimSpace(line) = << >>
    \/ HasPrefix(line, <<"#">>)
    \/ HasPrefix(line, <<"/", "/">>)

\* the reader has gone past a line without counting or sending it
ReaderSkipped ==
    /\ producer.pc = "scan" /\ producer'.pc = "scan"
    /\ producer'.next = producer.next + 1
    /\ stats' = stats

\* the reader has left a line behind
ReaderPassed ==
    /\ pf.mode = "stream" /\ producer.pc = "scan"
    /\ producer.next <= Len(file.lines)
    /\ producer' # producer

\* C37: the streaming reader skips exactly the lines that are blank or
\* start with "#" or "//"; every other line is counted in total and placed
\* on the input queue.
C37_SkipsExactlyCommentsAndBlanks ==
    [][ReaderPassed => (ReaderSkipped <=> CommentOrBlank(file.lines[producer.next]))]_vars

\* What the code does: a line is skipped exactly if it is empty or its
\* first byte is "#" or "/", whatever follows; a line of spaces is counted
\* and sent.
C37_SkipsByFirstByte ==
    [][ReaderPassed =>
         (ReaderSkipped <=> \/ file.lines[producer.next] = << >>
                            \/ file.lines[producer.next][1] \in {"#", "/"})]_vars

(***************************************************************************)
(* The earlier pipeline (src/main.go:929-1015): the workers add to the     *)
(* fields of the shared Stats with stats.X++, without mutex or atomics.    *)
(* The increment is a load and a store, two steps between which the other  *)
(* workers run; the value loaded is kept in the worker's local record.     *)
(***************************************************************************)
legacyMaxWorkers == 100

\* numWorkers of the earlier processURLs: NumCPU for none, capped
legacyNumWorkers(configured) ==
    LET auto == IF configured <= 0 THEN NumCPU ELSE configured
    IN  IF auto > legacyMaxWorkers THEN legacyMaxWorkers ELSE auto

\* processURLs up to the range over resultsChan
LegacyCall ==
    /\ pf.mode = "legacy" /\ pf.pc = "start"
    /\ LET n == legacyNumWorkers(cfg.workers)
       IN  /\ pu' = [pc |-> "collect", urls |-> file.lines, numWorkers |-> n,
                     results |-> << >>, err |-> "nil"]
           /\ urlChan' = NewChan(n * 2)
           /\ resultsChan' = NewChan(Len(file.lines))
           /\ wk' = [w \in 1..n |-> NewWorker]
    /\ stats' = NewStats(Len(file.lines))
    /\ producer' = [pc |-> "send", next |-> 1]
    /\ closer' = "wait"
    /\ pf' = [pf EXCEPT !.pc = "called"]
    /\ UNCHANGED <<call, checker, cfg, ctx, file, progress, ticks, emitted, out>>

\* worker: case <-ctx.Done(): return
LegacyCtxDone(w) ==
    /\ pf.mode = "legacy" /\ wk[w].pc = "select"
    /\ ctx # "live"
    /\ wk' = [wk EXCEPT ![w].pc = "done"]
    /\ UNCHANGED <<call, checker, cfg, ctx, file, pf, pu, stats, urlChan, resultsChan,
                   producer, closer, progress, ticks, emitted, out>>

\* worker: case rawURL, ok := <-urls with !ok
LegacyClosed(w) ==
    /\ pf.mode = "legacy" /\ wk[w].pc = "select"
    /\ urlChan.buf = << >> /\ urlChan.closed
    /\ wk' = [wk EXCEPT ![w].pc = "done"]
    /\ UNCHANGED <<call, checker, cfg, ctx, file, pf, pu, stats, urlChan, resultsChan,
                   producer, closer, progress, ticks, emitted, out>>

\* worker: a URL is received, validated and classified, up to the first
\* access to the shared Stats or to the results channel
LegacyRecv(w) ==
    /\ pf.mode = "legacy" /\ wk[w].pc = "select"
    /\ urlChan.buf # << >>
    /\ LET rawURL == Head(urlChan.buf)
           r      == isSuspicious(checker, rawURL)
       IN  /\ urlChan' = [urlChan EXCEPT !.buf = Tail(@)]
           /\ IF cfg.validateURLs /\ ~isValidURL(rawURL)
              THEN /\ wk' = [wk EXCEPT ![w].pc = "loadInvalid"]
                   /\ UNCHANGED checker
              ELSE /\ checker' = isSuspiciousChecker(checker, rawURL)
                   /\ IF r.suspicious
                      THEN wk' = [wk EXCEPT ![w].pc = "push",
                                            ![w].pending =
                                                Result(rawURL, r.category, r.reason)]
                      ELSE wk' = [wk EXCEPT ![w].pc = "loadProcessed"]
    /\ UNCHANGED <<call, cfg, ctx, file, pf, pu, stats, resultsChan, producer, closer,
                   progress, ticks, emitted, out>>

\* worker: results <- Result{...}, a plain send
LegacyPush(w) ==
    /\ pf.mode = "legacy" /\ wk[w].pc = "push"
    /\ Len(resultsChan.buf) < resultsChan.cap
    /\ resultsChan' = [resultsChan EXCEPT !.buf = Append(@, wk[w].pending)]
    /\ emitted' = Append(emitted, wk[w].pending)
    /\ wk' = [wk EXCEPT ![w].pc = "loadSuspicious", ![w].pending = NoResult]
    /\ UNCHANGED <<call, checker, cfg, ctx, file, pf, pu, stats, urlChan, producer,
                   closer, progress, ticks, out>>

\* stats.X++, first half: the field is read
LegacyLoad(w) ==
    /\ pf.mode = "legacy"
    /\ wk[w].pc \in {"loadInvalid", "loadSuspicious", "loadProcessed"}
    /\ wk' = CASE wk[w].pc = "loadInvalid" ->
                    [wk EXCEPT ![w].pc = "storeInvalid",
                               ![w].local.invalid = stats.InvalidURLs]
               [] wk[w].pc = "loadSuspicious" ->
                    [wk EXCEPT ![w].pc = "storeSuspicious",
                               ![w].local.suspicious = stats.SuspiciousURLs]
               [] wk[w].pc = "loadProcessed" ->
                    [wk EXCEPT ![w].pc = "storeProcessed",
                               ![w].local.processed = stats.ProcessedURLs]
    /\ UNCHANGED <<call, checker, cfg, ctx, file, pf, pu, stats, urlChan, resultsChan,
                   producer, closer, progress, ticks, emitted, out>>

\* stats.X++, second half: the value read plus one is written; after
\* InvalidURLs++ comes continue, after SuspiciousURLs++ comes ProcessedURLs++
LegacyStore(w) ==
    /\ pf.mode = "legacy"
    /\ wk[w].pc \in {"storeInvalid", "storeSuspicious", "storeProcessed"}
    /\ stats' = CASE wk[w].pc = "storeInvalid" ->
                       [stats EXCEPT !.InvalidURLs = wk[w].local.invalid + 1]
                  [] wk[w].pc = "storeSuspicious" ->
                       [stats EXCEPT !.SuspiciousURLs = wk[w].local.suspicious + 1]
                  [] wk[w].pc = "storeProcessed" ->
                       [stats EXCEPT !.ProcessedURLs = wk[w].local.processed + 1]
    /\ wk' = [wk EXCEPT ![w].local = ZeroLocal,
                        ![w].pc = CASE wk[w].pc = "storeInvalid"    -> "select"
                                    [] wk[w].pc = "storeSuspicious" -> "loadProcessed"
                                    [] wk[w].pc = "storeProcessed"  -> "select"]
    /\ UNCHANGED <<call, checker, cfg, ctx, file, pf, pu, urlChan, resultsChan,
                   producer, closer, progress, ticks, emitted, out>>

\* return results, stats, ctx.Err()
LegacyReturn ==
    /\ pf.mode = "legacy" /\ pu.pc = "wait"
    /\ pu' = [pu EXCEPT !.pc = "returned", !.err = CtxErr(ctx)]
    /\ pf' = [pf EXCEPT !.pc = "returned"]
    /\ UNCHANGED <<call, checker, cfg, ctx, file, stats, urlChan, resultsChan, wk,
                   producer, closer, progress, ticks, emitted, out>>

NextLegacy ==
    \/ LegacyCall
    \/ \E w \in DOMAIN wk : LegacyCtxDone(w)
    \/ \E w \in DOMAIN wk : LegacyClosed(w)
    \/ \E w \in DOMAIN wk : LegacyRecv(w)
    \/ \E w \in DOMAIN wk : LegacyPush(w)
    \/ \E w \in DOMAIN wk : LegacyLoad(w)
    \/ \E w \in DOMAIN wk : LegacyStore(w)
    \/ ProducerSend
    \/ ProducerCtxDone
    \/ ProducerFinish
    \/ CloserClose
    \/ CollectRecv
    \/ CollectEnd
    \/ LegacyReturn
    \/ Timeout

\* two suspicious URLs and two that fail the validation
URLs_Legacy == <<U_keyword, U_bareKw, U_keyword, U_bareKw>>

InitLegacy ==
    \E workers \in {1, 2}, validate \in BOOLEAN :
        InitRun(Scenario(URLs_Legacy, workers, validate, FALSE, AllOn),
                URLs_Legacy, "legacy", "start", FALSE)

SpecLegacy == InitLegacy /\ [][NextLegacy]_vars

\* the URLs received that the worker rejected at the validation
LegacyRejected ==
    { i \in DOMAIN Received : cfg.validateURLs /\ ~isValidURL(Received[i]) }

\* C38: in the earlier pipeline no update of the shared Stats is lost: when
\* processURLs returns, ProcessedURLs, SuspiciousURLs and InvalidURLs equal
\* the number of URLs the workers classified, matched and rejected.
C38_NoUpdateLost ==
    (pf.mode = "legacy" /\ pu.pc = "returned") =>
        /\ stats.InvalidURLs = Cardinality(LegacyRejected)
        /\ stats.SuspiciousURLs = Len(emitted)
        /\ stats.ProcessedURLs = Len(Received) - Cardinality(LegacyRejected)

\* What the code does: the counters never exceed those numbers, every
\* counter of a run that counted anything is at least one, and with one
\* worker nothing is lost.
C38_OnlyLosses ==
    (pf.mode = "legacy" /\ pu.pc = "returned") =>
        /\ stats.InvalidURLs <= Cardinality(LegacyRejected)
        /\ stats.SuspiciousURLs <= Len(emitted)
        /\ stats.ProcessedURLs <= Len(Received) - Cardinality(LegacyRejected)
        /\ Len(emitted) > 0 => stats.SuspiciousURLs > 0
        /\ Len(wk) = 1 => /\ stats.InvalidURLs = Cardinality(LegacyRejected)
                          /\ stats.SuspiciousURLs = Len(emitted)
                          /\ stats.ProcessedURLs =
                                 Len(Received) - Cardinality(LegacyRejected)

\* the classifier answered not suspicious for a URL that an enabled
\* category matches and that the length test lets through
Suppressed ==
    /\ ClassifierCall
    /\ call.arg # << >>
    /\ call.op = "isSuspicious" => Len(call.arg) <= maxURLLength
    /\ Hits(checker, call.arg) # {}
    /\ call.ret = NotSuspicious

\* C39: a URL is suppressed only if it contains, letter case ignored, an
\* exclusion string that is not empty; an entry that is empty after
\* trimming excludes nothing.
C39_EmptyEntryExcludesNothing ==
    Suppressed =>
        \E k \in DOMAIN checker.excludePatterns :
            /\ checker.excludePatterns[k] # << >>
            /\ PatternOccurs(checker.excludePatterns[k], call.arg)

\* What the code does: a URL is suppressed only if it matches an exclusion
\* pattern in use, and the empty entry is such a pattern: it matches every
\* URL, so that with it no URL is ever reported.
C39_EmptyEntryExcludesAll ==
    /\ Suppressed => Excluded(checker, call.arg)
    /\ (ClassifierCall /\ \E k \in DOMAIN checker.excludePatterns :
                              checker.excludePatterns[k] = << >>)
           => call.ret = NotSuspicious

====
